---- MODULE Spec2Model ----
(***************************************************************************)
(* RShim transport layer: the PCIe CR-space gateway protocol               *)
(* (src/rshim_pcie_lf.c) and the USB register / asynchronous FIFO engine    *)
(* (src/src/rshim_usb.c).                                                   *)
(*                                                                         *)
(* 32-bit quantities are sequences of 4 bytes and 64-bit quantities         *)
(* sequences of 8 bytes, most significant byte first, so that shifts,       *)
(* masks and byte swaps are computed on the full width.                     *)
(***************************************************************************)
EXTENDS Integers, Sequences, FiniteSets, TLC

VARIABLES
  hostLE,       \* byte order of the host: TRUE when be64toh/be32toh swap
  has_rshim,    \* PCIe backend: bd->has_rshim
  write_count,  \* PCIe backend: dev->write_count (u8)
  cr,           \* TRIO CR gateway registers, by CR-space offset
  widget,       \* RShim side: byte access widget and register file
  call,         \* the PCIe register operation in progress
  log,          \* gateway accesses attempted by the operation in progress
  gwLast,       \* lock acquires / releases of the last gateway access
  sinceDrain,   \* 8-byte writes issued since the last drain or read
  lastWrite,    \* last value written with success, by bus address
  dev,          \* USB backend: the rshim_usb_t with its rshim_backend_t
  lib,          \* libusb: transfer objects, handles, hotplug state
  ev,           \* what the last USB handler was given and did
  hist,         \* USB history: resubmissions, references, last detach
  gw,           \* threads running gateway accesses on one PCI device
  nt            \* threads of the USB side, their locks and notifications

pcieVars == <<hostLE, has_rshim, write_count, cr, widget, call, log,
              gwLast, sinceDrain, lastWrite>>
usbVars == <<dev, lib, ev, hist>>
conVars == <<gw, nt>>

----------------------------------------------------------------------------
(* Bounds of the model *)

\* Polls of the PENDING bit that may find it set, per PENDING wait.
MaxPoll == 1

----------------------------------------------------------------------------
(* Words and byte order *)

Zero32 == <<0, 0, 0, 0>>
Zero64 == <<0, 0, 0, 0, 0, 0, 0, 0>>

RECURSIVE BitAnd(_, _, _)
BitAnd(a, b, n) ==
  IF n = 0 \/ a = 0 \/ b = 0 THEN 0
  ELSE (a % 2) * (b % 2) + 2 * BitAnd(a \div 2, b \div 2, n - 1)

\* x & y on 32-bit words
And32(x, y) == <<BitAnd(x[1], y[1], 8), BitAnd(x[2], y[2], 8),
                 BitAnd(x[3], y[3], 8), BitAnd(x[4], y[4], 8)>>

bswap32(w) == <<w[4], w[3], w[2], w[1]>>
bswap64(v) == <<v[8], v[7], v[6], v[5], v[4], v[3], v[2], v[1]>>

be32toh(w) == IF hostLE THEN bswap32(w) ELSE w
be64toh(v) == IF hostLE THEN bswap64(v) ELSE v

\* (uint32_t)(value >> 32) and (uint32_t)(value)
Upper32(v) == <<v[1], v[2], v[3], v[4]>>
Lower32(v) == <<v[5], v[6], v[7], v[8]>>

\* ((uint64_t)first << 32) | second
Assemble64(first, second) == first \o second

----------------------------------------------------------------------------
(* Constants of src/rshim_pcie_lf.c *)

MELLANOX_ADDR == 88
MELLANOX_DATA == 92
MELLANOX_CAP_READ == 1

TRIO_CR_GW_LOCK == 932000
TRIO_CR_GW_DATA_LOWER == 932016
TRIO_CR_GW_CTL == 932020
TRIO_CR_GW_ADDR_LOWER == 932028
TRIO_CR_GW_LOCK_ACQUIRED == <<128, 0, 0, 0>>
TRIO_CR_GW_LOCK_RELEASE == Zero32
TRIO_CR_GW_TRIGGER == <<224, 0, 0, 0>>
TRIO_CR_GW_READ_4BYTE == <<0, 0, 0, 6>>
TRIO_CR_GW_WRITE_4BYTE == <<0, 0, 0, 2>>

CrOffsets == {TRIO_CR_GW_LOCK, TRIO_CR_GW_DATA_LOWER, TRIO_CR_GW_CTL,
              TRIO_CR_GW_ADDR_LOWER}

\* Register offsets and widget control values of rshim.h
RSH_BOOT_FIFO_DATA == 1032
RSH_SCRATCHPAD == 32
RSH_SEMAPHORE0 == 40
RSH_BYTE_ACC_CTL == 1168
RSH_BYTE_ACC_WDAT == 1176
RSH_BYTE_ACC_RDAT == 1184
RSH_BYTE_ACC_ADDR == 1192
RSH_BYTE_ACC_SIZE == <<16, 0, 0, 0>>
RSH_BYTE_ACC_PENDING == <<32, 0, 0, 0>>
RSH_BYTE_ACC_READ_TRIGGER == <<80, 0, 0, 0>>

\* RSH_BASE_ADDR + (addr | (chan << 16)), for chan < 256 and addr < 65536
RshAddr(chan, addr) == <<128, chan, addr \div 256, addr % 256>>

\* RSH_CHANNEL1_BASE + offset
Chan1(offset) == <<128, 1, offset \div 256, offset % 256>>

\* RSH_CHANNEL1_BASE + RSH_BYTE_ACC_PENDING (no carry: the bits are disjoint)
PendingMask == <<128 + RSH_BYTE_ACC_PENDING[1], 1, 0, 0>>

ENODEV == 19
\* pci_write_long: a negative return is a failure
PciFail == -1
PciOk == 1

----------------------------------------------------------------------------
(* The RShim side of the gateway: the byte access widget moves the two      *)
(* 32-bit halves of a register in the order they are written or read.       *)

MemGet(mem, a) == IF a \in DOMAIN mem THEN mem[a] ELSE Zero64
MemPut(mem, a, v) == (a :> v) @@ mem

\* A 4-byte gateway write of v to RShim address a.
DevWrite(w, a, v) ==
  IF a = Chan1(RSH_BYTE_ACC_CTL) THEN
    IF v = RSH_BYTE_ACC_READ_TRIGGER
    THEN [w EXCEPT !.rdat = MemGet(w.mem, w.addr), !.ridx = 1, !.widx = 1]
    ELSE [w EXCEPT !.widx = 1]
  ELSE IF a = Chan1(RSH_BYTE_ACC_ADDR) THEN [w EXCEPT !.addr = v]
  ELSE IF a = Chan1(RSH_BYTE_ACC_WDAT) THEN
    IF w.widx = 1
    THEN [w EXCEPT !.hold = v, !.widx = 2]
    ELSE [w EXCEPT !.mem = MemPut(w.mem, w.addr, Assemble64(w.hold, v)),
                   !.widx = 1]
  ELSE w

\* A 4-byte gateway read of RShim address a; ctl is what the widget's control
\* register shows at this instant.
DevReadVal(w, a, ctl) ==
  IF a = Chan1(RSH_BYTE_ACC_CTL) THEN ctl
  ELSE IF a = Chan1(RSH_BYTE_ACC_RDAT)
       THEN IF w.ridx = 1 THEN Upper32(w.rdat) ELSE Lower32(w.rdat)
  ELSE Zero32

DevReadNext(w, a) ==
  IF a = Chan1(RSH_BYTE_ACC_RDAT)
  THEN [w EXCEPT !.ridx = IF w.ridx = 1 THEN 2 ELSE 1]
  ELSE w

----------------------------------------------------------------------------
(* The machine a gateway access runs on.  m.n counts the pci_write_long      *)
(* calls made so far by the access and m.failAt names the one that fails     *)
(* (0: none); m.ctl is what the widget's control register reads back.        *)
(* Every access stores to MELLANOX_DATA, ADDR_LOWER, CTL and DATA_LOWER      *)
(* before it uses them, so only the lock register is carried from one        *)
(* access to the next.                                                       *)

Machine(failAt, ctl) ==
  [cr |-> cr, capData |-> Zero32, widget |-> widget, n |-> 0,
   failAt |-> failAt, ctl |-> ctl, acq |-> 0, rel |-> 0]

\* The CR gateway performs the transaction selected by CTL when the trigger
\* value is written to the lock register; the lock stays taken.
CrTrigger(m) ==
  LET a == m.cr[TRIO_CR_GW_ADDR_LOWER]
      locked == [m.cr EXCEPT ![TRIO_CR_GW_LOCK] = TRIO_CR_GW_LOCK_ACQUIRED]
  IN IF m.cr[TRIO_CR_GW_CTL] = TRIO_CR_GW_READ_4BYTE THEN
       [m EXCEPT !.cr = [locked EXCEPT ![TRIO_CR_GW_DATA_LOWER] =
                                         DevReadVal(m.widget, a, m.ctl)],
                 !.widget = DevReadNext(m.widget, a)]
     ELSE IF m.cr[TRIO_CR_GW_CTL] = TRIO_CR_GW_WRITE_4BYTE THEN
       [m EXCEPT !.cr = locked,
                 !.widget = DevWrite(m.widget, a, m.cr[TRIO_CR_GW_DATA_LOWER])]
     ELSE [m EXCEPT !.cr = locked]

\* The device's reaction to a store to the hidden MELLANOX_ADDR register.
CapAccess(m, v) ==
  LET rd == v % 2
      offset == v - rd
  IN IF rd = MELLANOX_CAP_READ THEN [m EXCEPT !.capData = m.cr[offset]]
     ELSE IF offset = TRIO_CR_GW_LOCK /\ m.capData = TRIO_CR_GW_TRIGGER
          THEN CrTrigger(m)
     ELSE [m EXCEPT !.cr = [m.cr EXCEPT ![offset] = m.capData]]

pci_write_long(m, reg, v) ==
  LET m1 == [m EXCEPT !.n = m.n + 1]
  IN IF m1.n = m.failAt THEN [rc |-> PciFail, val |-> Zero32, m |-> m1]
     ELSE IF reg = MELLANOX_DATA
          THEN [rc |-> PciOk, val |-> Zero32, m |-> [m1 EXCEPT !.capData = v]]
     ELSE [rc |-> PciOk, val |-> Zero32, m |-> CapAccess(m1, v)]

pci_read_long(m, reg) == m.capData

pci_cap_read(m, offset) ==
  LET w == pci_write_long(m, MELLANOX_ADDR, offset + MELLANOX_CAP_READ)
  IN IF w.rc < 0 THEN w
     ELSE [rc |-> 0, val |-> pci_read_long(w.m, MELLANOX_DATA), m |-> w.m]

pci_cap_write(m, offset, value) ==
  LET d == pci_write_long(m, MELLANOX_DATA, value)
  IN IF d.rc < 0 THEN d
     ELSE LET a == pci_write_long(d.m, MELLANOX_ADDR, offset)
          IN IF a.rc < 0 THEN a ELSE [rc |-> 0, val |-> Zero32, m |-> a.m]

\* read_value & TRIO_CR_GW_LOCK_ACQUIRED
LockTaken(v) == And32(v, TRIO_CR_GW_LOCK_ACQUIRED) # Zero32

\* The poll of the lock register.  With a single caller nobody else releases
\* the lock, so a poll that finds it taken repeats for ever (spin) unless a
\* capability access fails.
trio_cr_gw_lock_acquire(m) ==
  LET p == pci_cap_read(m, TRIO_CR_GW_LOCK)
  IN IF p.rc # 0 THEN [rc |-> p.rc, val |-> Zero32, m |-> p.m, spin |-> FALSE]
     ELSE IF LockTaken(p.val)
          THEN [rc |-> 0, val |-> Zero32, m |-> p.m, spin |-> TRUE]
     ELSE LET a == pci_cap_write(p.m, TRIO_CR_GW_LOCK, TRIO_CR_GW_LOCK_ACQUIRED)
          IN IF a.rc # 0
             THEN [rc |-> a.rc, val |-> Zero32, m |-> a.m, spin |-> FALSE]
             ELSE [rc |-> 0, val |-> Zero32,
                   m |-> [a.m EXCEPT !.acq = a.m.acq + 1], spin |-> FALSE]

trio_cr_gw_lock_release(m) ==
  LET r == pci_cap_write(m, TRIO_CR_GW_LOCK, TRIO_CR_GW_LOCK_RELEASE)
  IN [rc |-> r.rc, val |-> Zero32, m |-> [r.m EXCEPT !.rel = r.m.rel + 1],
      spin |-> FALSE]

\* The capability accesses of a gateway transaction between acquire and
\* release, in program order.
CapW(offset, value) == [k |-> "capw", off |-> offset, v |-> value]
CapR(offset) == [k |-> "capr", off |-> offset, v |-> Zero32]

\* rc = <one capability access>; r is the state of the transaction so far.
GwOp(r, op) ==
  IF op.k = "acquire" THEN trio_cr_gw_lock_acquire(r.m)
  ELSE IF op.k = "release"
  THEN [trio_cr_gw_lock_release(r.m) EXCEPT !.val = r.val]
  ELSE IF op.k = "capw"
  THEN [pci_cap_write(r.m, op.off, op.v) EXCEPT !.val = r.val] @@
       [spin |-> FALSE]
  ELSE pci_cap_read(r.m, op.off) @@ [spin |-> FALSE]

\* if (rc) return rc; after every access: the rest of the transaction is
\* skipped.  A poll that finds the lock taken never gets further.
RECURSIVE GwRun(_, _)
GwRun(r, ops) ==
  IF ops = <<>> \/ r.rc # 0 \/ r.spin THEN r
  ELSE GwRun(GwOp(r, Head(ops)), Tail(ops))

GwStart(m) == [rc |-> 0, val |-> Zero32, m |-> m, spin |-> FALSE]

trio_cr_gw_read(m, addr) ==
  GwRun(GwStart(m),
        << [k |-> "acquire"],
           CapW(TRIO_CR_GW_ADDR_LOWER, addr),
           CapW(TRIO_CR_GW_CTL, TRIO_CR_GW_READ_4BYTE),
           CapW(TRIO_CR_GW_LOCK, TRIO_CR_GW_TRIGGER),
           CapR(TRIO_CR_GW_DATA_LOWER),
           [k |-> "release"] >>)

trio_cr_gw_write(m, addr, value) ==
  GwRun(GwStart(m),
        << [k |-> "acquire"],
           CapW(TRIO_CR_GW_DATA_LOWER, value),
           CapW(TRIO_CR_GW_ADDR_LOWER, addr),
           CapW(TRIO_CR_GW_CTL, TRIO_CR_GW_WRITE_4BYTE),
           CapW(TRIO_CR_GW_LOCK, TRIO_CR_GW_TRIGGER),
           [k |-> "release"] >>)

\* read_value & (RSH_CHANNEL1_BASE + RSH_BYTE_ACC_PENDING)
StillPending(v) == And32(v, PendingMask) # Zero32

----------------------------------------------------------------------------
(* The 8-byte register operations as sequences of gateway accesses.          *)
(* k: "pend" one rshim_byte_acc_pending_wait, "gww" one trio_cr_gw_write,    *)
(* "gwr" one trio_cr_gw_read whose value is the first or second half.        *)

Pend == [k |-> "pend", a |-> Chan1(RSH_BYTE_ACC_CTL), v |-> Zero32, part |-> 0]
GwW(a, v) == [k |-> "gww", a |-> a, v |-> v, part |-> 0]
GwR(a, part) == [k |-> "gwr", a |-> a, v |-> Zero32, part |-> part]

rshim_byte_acc_read(addr) ==
  << Pend,
     GwW(Chan1(RSH_BYTE_ACC_CTL), RSH_BYTE_ACC_SIZE),
     GwW(Chan1(RSH_BYTE_ACC_ADDR), addr),
     GwW(Chan1(RSH_BYTE_ACC_CTL), RSH_BYTE_ACC_READ_TRIGGER),
     Pend,
     GwR(Chan1(RSH_BYTE_ACC_RDAT), 1),
     Pend,
     GwR(Chan1(RSH_BYTE_ACC_RDAT), 2) >>

\* Mutant of ReadResult: the bus-to-host conversion is left out.
ReadResultNoSwap(first, second) == Assemble64(first, second)

\* *result = be64toh(((uint64_t)first << 32) | second)
ReadResult(first, second) == be64toh(Assemble64(first, second))

rshim_byte_acc_write(addr, value) ==
  << Pend,
     GwW(Chan1(RSH_BYTE_ACC_CTL), RSH_BYTE_ACC_SIZE),
     GwW(Chan1(RSH_BYTE_ACC_ADDR), addr),
     GwW(Chan1(RSH_BYTE_ACC_CTL), RSH_BYTE_ACC_SIZE),
     GwW(Chan1(RSH_BYTE_ACC_WDAT), Upper32(value)),
     Pend,
     GwW(Chan1(RSH_BYTE_ACC_WDAT), Lower32(value)) >>

\* Mutant of rshim_boot_fifo_write: the low word goes out first.
rshim_boot_fifo_write_swapped(addr, value) ==
  << GwW(addr, Lower32(value)), GwW(addr, Upper32(value)) >>

rshim_boot_fifo_write(addr, value) ==
  << GwW(addr, Upper32(value)), GwW(addr, Lower32(value)) >>

\* Mutant of NeedDrain: the drain comes one write late.
NeedDrainLate(wc) == wc = 8

\* dev->write_count == 7
NeedDrain(wc) == wc = 7

\* dev->write_count++ on a u8
IncCount(wc) == (wc + 1) % 256

\* addr = RSH_BASE_ADDR + (addr | (chan << 16)); addr = be32toh(addr)
ReadAddr(chan, reg) == be32toh(RshAddr(chan, reg))

\* the same for a write, where the boot stream address is not converted
WriteAddr(chan, reg) ==
  IF reg = RSH_BOOT_FIFO_DATA THEN RshAddr(chan, reg)
  ELSE be32toh(RshAddr(chan, reg))

----------------------------------------------------------------------------
(* Inputs *)

Chans == {0}
Regs == {RSH_BOOT_FIFO_DATA, RSH_SEMAPHORE0}
ReadRegs == {RSH_SEMAPHORE0}
Values == {<<1, 2, 3, 4, 5, 6, 7, 8>>, <<0, 0, 0, 0, 0, 0, 0, 9>>}

\* pci_write_long calls of one gateway access: 3 to take the lock, 8 for the
\* four capability writes of a gateway write, 2 to release.
MaxCapCalls == 13
FailPoints == 0..MaxCapCalls

\* Values the widget control register reads back as: idle, PENDING, the
\* size field, and one each of the two bits of RSH_CHANNEL1_BASE
CtlReadbacks == {Zero32, RSH_BYTE_ACC_PENDING, RSH_BYTE_ACC_SIZE,
                 <<128, 0, 0, 0>>, <<0, 1, 0, 0>>}

IdleCall ==
  [phase |-> "idle", op |-> "none", chan |-> 0, reg |-> 0, boot |-> FALSE,
   addr |-> Zero32, drainAddr |-> Zero32, value |-> Zero64, orig |-> Zero64,
   idx |-> 0, rc |-> 0, result |-> Zero64, first |-> Zero32, polls |-> 0,
   entryCount |-> 0, drainLen |-> 0]

\* Callers of the gateway on one PCI device: where each one is in its
\* access (pc 0: not in one), the value it last read, and the hidden data
\* register they share
GwThreads == {1, 2}
GwIdle == [pc |-> [t \in GwThreads |-> 0],
           val |-> [t \in GwThreads |-> Zero32],
           capData |-> Zero32, lockOnRead |-> FALSE]

\* Threads that deliver notifications: the main loop (rshim_usb_poll, the
\* probes) and a caller blocked in a libusb transfer, which handles events
\* too.  prog: what is left of the routine a thread runs; held: the owner
\* of each mutex; events: the thread handling libusb events; inNotify: the
\* rshim_notify call a thread is in; bound: rshim_find_by_dev finds the USB
\* backend; attached: its attach has been notified and has_rshim is set;
\* out: transfers of the USB backend not yet completed
NtThreads == {"main", "caller"}
NtLocks == {"rshim_lock", "usb.mutex", "usb.ringlock", "pcie.mutex"}
NoNote == [bd |-> "none", e |-> "none"]
NtIdle == [prog |-> [t \in NtThreads |-> <<>>],
           held |-> [l \in NtLocks |-> "none"],
           events |-> "none",
           inNotify |-> [t \in NtThreads |-> NoNote],
           plugged |-> FALSE, need_probe |-> FALSE, bound |-> FALSE,
           attached |-> FALSE, out |-> 0, pcieDone |-> FALSE]

\* rshim_pcie_probe: has_rshim = 1, write_count = 0
PcieProbed ==
  /\ hostLE \in BOOLEAN
  /\ has_rshim = TRUE
  /\ write_count = 0
  /\ cr = [o \in CrOffsets |-> Zero32]
  /\ widget = [addr |-> Zero32, hold |-> Zero32, widx |-> 1, rdat |-> Zero64,
               ridx |-> 1, mem |-> <<>>]
  /\ call = IdleCall
  /\ log = <<>>
  /\ gwLast = [acq |-> 0, rel |-> 0]
  /\ sinceDrain = 0
  /\ lastWrite = <<>>

PcieInit ==
  /\ PcieProbed
  /\ gw = GwIdle
  /\ nt = NtIdle

Key(chan, reg) == <<chan, reg>>
Forget(f, k) == [x \in (DOMAIN f) \ {k} |-> f[x]]

\* Mutant of PcieRead: the read leaves dev->write_count as it is.
PcieReadNoReset(chan, reg) ==
  /\ call.phase = "idle"
  /\ log' = <<>>
  /\ call' = IF ~has_rshim
             THEN [IdleCall EXCEPT !.phase = "done", !.op = "read",
                                   !.chan = chan, !.reg = reg, !.rc = -ENODEV]
             ELSE [IdleCall EXCEPT !.phase = "main", !.op = "read",
                                   !.chan = chan, !.reg = reg,
                                   !.addr = ReadAddr(chan, reg), !.idx = 1,
                                   !.entryCount = write_count]
  /\ UNCHANGED <<hostLE, has_rshim, cr, widget, gwLast, lastWrite,
                 write_count, sinceDrain>>

\* rshim_pcie_read(bd, chan, addr, &result)
PcieRead(chan, reg) ==
  /\ call.phase = "idle"
  /\ log' = <<>>
  /\ IF ~has_rshim
     THEN /\ call' = [IdleCall EXCEPT !.phase = "done", !.op = "read",
                                     !.chan = chan, !.reg = reg, !.rc = -ENODEV]
          /\ UNCHANGED <<write_count, sinceDrain>>
     ELSE /\ write_count' = 0
          /\ sinceDrain' = 0
          /\ call' = [IdleCall EXCEPT !.phase = "main", !.op = "read",
                                     !.chan = chan, !.reg = reg,
                                     !.addr = ReadAddr(chan, reg), !.idx = 1,
                                     !.entryCount = write_count]
  /\ UNCHANGED <<hostLE, has_rshim, cr, widget, gwLast, lastWrite>>

\* rshim_pcie_write(bd, chan, addr, value) up to the first gateway access:
\* the forced drain starts here when the counter has reached the threshold.
PcieWrite(chan, reg, value) ==
  /\ call.phase = "idle"
  /\ log' = <<>>
  /\ LET c == [IdleCall EXCEPT !.op = "write", !.chan = chan, !.reg = reg,
                               !.boot = (reg = RSH_BOOT_FIFO_DATA),
                               !.addr = WriteAddr(chan, reg),
                               !.value = be64toh(value), !.orig = value,
                               !.idx = 1, !.entryCount = write_count]
     IN IF ~has_rshim
        THEN /\ call' = [c EXCEPT !.phase = "done", !.rc = -ENODEV, !.idx = 0]
             /\ UNCHANGED <<write_count, sinceDrain, lastWrite>>
        ELSE IF NeedDrain(write_count)
        THEN \* __sync_synchronize(); rshim_pcie_read(bd, chan, RSH_SCRATCHPAD)
             /\ write_count' = 0
             /\ sinceDrain' = 0
             /\ call' = [c EXCEPT !.phase = "drain",
                                  !.drainAddr = ReadAddr(chan, RSH_SCRATCHPAD)]
             /\ UNCHANGED lastWrite
        ELSE /\ write_count' = IncCount(write_count)
             /\ sinceDrain' = sinceDrain + 1
             /\ call' = [c EXCEPT !.phase = "main"]
             /\ lastWrite' = Forget(lastWrite, Key(chan, reg))
  /\ UNCHANGED <<hostLE, has_rshim, cr, widget, gwLast>>

Steps(c) ==
  IF c.phase = "drain" THEN rshim_byte_acc_read(c.drainAddr)
  ELSE IF c.op = "read" THEN rshim_byte_acc_read(c.addr)
  ELSE IF c.boot THEN rshim_boot_fifo_write(c.addr, c.value)
  ELSE rshim_byte_acc_write(c.addr, c.value)

\* The widget's address and data latches are loaded by every register
\* operation before it uses them: they are not carried to the next one.
Latched(w) ==
  [addr |-> Zero32, hold |-> Zero32, widx |-> 1, rdat |-> Zero64, ridx |-> 1,
   mem |-> w.mem]

\* The end of the forced drain: its return code is dropped, the counter is
\* incremented and the write proper starts.
AfterDrain(c) ==
  /\ write_count' = IncCount(write_count)
  /\ sinceDrain' = sinceDrain + 1
  /\ call' = [c EXCEPT !.phase = "main", !.idx = 1, !.polls = 0,
                       !.drainLen = Len(log'), !.first = Zero32,
                       !.result = Zero64]
  /\ lastWrite' = Forget(lastWrite, Key(c.chan, c.reg))

\* The register operation returns rc.
Finish(c, rc) ==
  /\ call' = [c EXCEPT !.phase = "done", !.rc = rc]
  /\ lastWrite' = IF c.op = "write" /\ ~c.boot /\ rc = 0
                  THEN MemPut(lastWrite, Key(c.chan, c.reg), c.orig)
                  ELSE lastWrite
  /\ UNCHANGED <<write_count, sinceDrain>>

Leave(c, rc, w) ==
  /\ widget' = Latched(w)
  /\ IF c.phase = "drain" THEN AfterDrain(c) ELSE Finish(c, rc)

Advance(c, w) ==
  IF c.idx = Len(Steps(c)) THEN Leave(c, 0, w)
  ELSE /\ call' = [c EXCEPT !.idx = c.idx + 1]
       /\ widget' = w
       /\ UNCHANGED <<write_count, sinceDrain, lastWrite>>

\* What a gateway access leaves behind.  The log takes one entry per
\* gateway write or read and one per PENDING wait, whatever the number of
\* polls the wait took.
Commit(st, r, ends) ==
  /\ cr' = [o \in CrOffsets |->
              IF o = TRIO_CR_GW_LOCK THEN r.m.cr[o] ELSE Zero32]
  /\ gwLast' = [acq |-> r.m.acq, rel |-> r.m.rel]
  /\ log' = IF ends
            THEN Append(log, [k |-> st.k, a |-> st.a, v |-> st.v,
                              ok |-> r.rc = 0])
            ELSE log
  /\ UNCHANGED <<hostLE, has_rshim>>

InCall == call.phase \in {"drain", "main"}

\* The gateway access ran to its return.  failAt names the pci_write_long
\* call that fails: it must be one the access makes.
Ran(r, failAt) == ~r.spin /\ failAt <= r.m.n

\* The step of the operation in progress.
Step == Steps(call)[call.idx]

GwWriteDone(st, r) ==
  /\ Commit(st, r, TRUE)
  /\ IF r.rc # 0 THEN Leave(call, r.rc, r.m.widget)
     ELSE Advance(call, r.m.widget)

\* One trio_cr_gw_write of the operation in progress.
GwWriteStep(failAt) ==
  /\ InCall
  /\ Step.k = "gww"
  /\ Ran(trio_cr_gw_write(Machine(failAt, Zero32), Step.a, Step.v), failAt)
  /\ GwWriteDone(Step,
                 trio_cr_gw_write(Machine(failAt, Zero32), Step.a, Step.v))

GwReadDone(st, r) ==
  /\ Commit(st, r, TRUE)
  /\ IF r.rc # 0 THEN Leave(call, r.rc, r.m.widget)
     ELSE IF st.part = 1
     THEN Advance([call EXCEPT !.first = r.val], r.m.widget)
     ELSE Advance([call EXCEPT !.result = ReadResult(call.first, r.val)],
                  r.m.widget)

\* One trio_cr_gw_read of a data half.
GwReadStep(failAt) ==
  /\ InCall
  /\ Step.k = "gwr"
  /\ Ran(trio_cr_gw_read(Machine(failAt, Zero32), Step.a), failAt)
  /\ GwReadDone(Step, trio_cr_gw_read(Machine(failAt, Zero32), Step.a))

PendWaitDone(st, r) ==
  /\ Commit(st, r, r.rc # 0 \/ ~StillPending(r.val))
  /\ IF r.rc # 0 THEN Leave(call, r.rc, r.m.widget)
     ELSE IF StillPending(r.val)
     THEN /\ call' = [call EXCEPT !.polls = call.polls + 1]
          /\ widget' = r.m.widget
          /\ UNCHANGED <<write_count, sinceDrain, lastWrite>>
     ELSE Advance([call EXCEPT !.polls = 0], r.m.widget)

\* One iteration of the loop of rshim_byte_acc_pending_wait.
PendWaitStep(failAt, ctl) ==
  /\ InCall
  /\ Step.k = "pend"
  /\ StillPending(ctl) => call.polls < MaxPoll
  /\ Ran(trio_cr_gw_read(Machine(failAt, ctl), Step.a), failAt)
  /\ PendWaitDone(Step, trio_cr_gw_read(Machine(failAt, ctl), Step.a))

\* The caller takes the result.
PcieReturn ==
  /\ call.phase = "done"
  /\ call' = IdleCall
  /\ log' = <<>>
  /\ UNCHANGED <<hostLE, has_rshim, write_count, cr, widget, gwLast,
                 sinceDrain, lastWrite>>

\* ---- two callers of the gateway, one configuration access at a time ----
\* pci_cap_write and pci_cap_read as the configuration accesses they make
CfgSteps(op) ==
  IF op.k = "capw"
  THEN <<[rd |-> FALSE, reg |-> MELLANOX_DATA, v |-> op.v],
         [rd |-> FALSE, reg |-> MELLANOX_ADDR, v |-> op.off]>>
  ELSE <<[rd |-> FALSE, reg |-> MELLANOX_ADDR,
          v |-> op.off + MELLANOX_CAP_READ],
         [rd |-> TRUE, reg |-> MELLANOX_DATA, v |-> 0]>>

\* trio_cr_gw_read(pci_dev, addr, &result): steps 1-2 poll the lock, 3-4
\* take it, 5-12 are the transaction, 13-14 release the lock
GwProgram(addr) ==
  CfgSteps(CapR(TRIO_CR_GW_LOCK))
  \o CfgSteps(CapW(TRIO_CR_GW_LOCK, TRIO_CR_GW_LOCK_ACQUIRED))
  \o CfgSteps(CapW(TRIO_CR_GW_ADDR_LOWER, addr))
  \o CfgSteps(CapW(TRIO_CR_GW_CTL, TRIO_CR_GW_READ_4BYTE))
  \o CfgSteps(CapW(TRIO_CR_GW_LOCK, TRIO_CR_GW_TRIGGER))
  \o CfgSteps(CapR(TRIO_CR_GW_DATA_LOWER))
  \o CfgSteps(CapW(TRIO_CR_GW_LOCK, TRIO_CR_GW_LOCK_RELEASE))

GwPollEnd == 2
GwTakeEnd == 4
GwLast == 14

\* the register each caller reads
GwAddrOf(t) ==
  ReadAddr(0, IF t = 1 THEN RSH_SCRATCHPAD ELSE RSH_SEMAPHORE0)

\* trio_cr_gw_lock_acquire has returned 0 and trio_cr_gw_lock_release has
\* not returned yet
InGateway(t) == gw.pc[t] > GwTakeEnd

\* where the caller goes after step i, having read v in a poll
GwNextPc(i, v) ==
  IF i = GwPollEnd /\ LockTaken(v) THEN 1
  ELSE IF i = GwLast THEN 0
  ELSE i + 1

\* a caller enters trio_cr_gw_read
GwEnter(t) ==
  /\ gw.pc[t] = 0
  /\ gw' = [gw EXCEPT !.pc[t] = 1]
  /\ UNCHANGED <<hostLE, has_rshim, write_count, cr, widget, call, log,
                 gwLast, sinceDrain, lastWrite>>

\* pci_write_long(pci_dev, reg, v) of caller t; on hardware whose lock
\* register is taken by the read that finds it free (lockOnRead) the poll
\* leaves the lock set
GwCfgWrite(t) ==
  /\ gw.pc[t] > 0
  /\ LET st == GwProgram(GwAddrOf(t))[gw.pc[t]]
         m0 == [Machine(0, Zero32) EXCEPT !.capData = gw.capData]
         m == pci_write_long(m0, st.reg, st.v).m
         poll == gw.pc[t] = 1 /\ gw.lockOnRead
     IN /\ ~st.rd
        /\ cr' = IF poll
                 THEN [m.cr EXCEPT ![TRIO_CR_GW_LOCK] =
                                     TRIO_CR_GW_LOCK_ACQUIRED]
                 ELSE m.cr
        /\ widget' = m.widget
        /\ gw' = [gw EXCEPT !.capData = m.capData,
                            !.pc[t] = GwNextPc(gw.pc[t], Zero32)]
  /\ UNCHANGED <<hostLE, has_rshim, write_count, call, log, gwLast,
                 sinceDrain, lastWrite>>

\* pci_read_long(pci_dev, MELLANOX_DATA) of caller t
GwCfgRead(t) ==
  /\ gw.pc[t] > 0
  /\ LET st == GwProgram(GwAddrOf(t))[gw.pc[t]]
         m0 == [Machine(0, Zero32) EXCEPT !.capData = gw.capData]
         v == pci_read_long(m0, st.reg)
     IN /\ st.rd
        /\ gw' = [gw EXCEPT !.val[t] = v,
                            !.pc[t] = GwNextPc(gw.pc[t], v)]
  /\ UNCHANGED <<hostLE, has_rshim, write_count, cr, widget, call, log,
                 gwLast, sinceDrain, lastWrite>>

\* rshim.c marks the register bus of the backend absent or present
\* (bd->has_rshim), between two register operations
PcieFlag(b) ==
  /\ call.phase = "idle"
  /\ has_rshim # b
  /\ has_rshim' = b
  /\ UNCHANGED <<hostLE, write_count, cr, widget, call, log, gwLast,
                 sinceDrain, lastWrite>>

PcieNext ==
  \/ \E c \in Chans, r \in ReadRegs :
       /\ PcieRead(c, r)
       /\ UNCHANGED <<usbVars, conVars>>
  \/ \E c \in Chans, r \in Regs, v \in Values :
       /\ PcieWrite(c, r, v)
       /\ UNCHANGED <<usbVars, conVars>>
  \/ \E f \in FailPoints :
       /\ GwWriteStep(f)
       /\ UNCHANGED <<usbVars, conVars>>
  \/ \E f \in FailPoints :
       /\ GwReadStep(f)
       /\ UNCHANGED <<usbVars, conVars>>
  \/ \E f \in FailPoints, ctl \in CtlReadbacks :
       /\ PendWaitStep(f, ctl)
       /\ UNCHANGED <<usbVars, conVars>>
  \/ /\ PcieReturn
     /\ UNCHANGED <<usbVars, conVars>>


----------------------------------------------------------------------------
(* USB backend (src/src/rshim_usb.c) *)

\* Bounds of the USB model
MaxArrivals == 2    \* hotplug arrivals of the device
MaxUpperRefs == 1   \* references held by upper layers besides the probe's

READ_RETRIES == 5
WRITE_RETRIES == 5

\* sizeof(dev->ctrl_data)
CtrlSize == 8

\* errno values negated in the malformed-response codes
ENXIO == 6
EINVAL == 22
EACCES == 13

\* enum libusb_transfer_status
LIBUSB_TRANSFER_COMPLETED == 0
LIBUSB_TRANSFER_ERROR == 1
LIBUSB_TRANSFER_TIMED_OUT == 2
LIBUSB_TRANSFER_CANCELLED == 3
LIBUSB_TRANSFER_STALL == 4
LIBUSB_TRANSFER_NO_DEVICE == 5
LIBUSB_TRANSFER_OVERFLOW == 6
TransferStatuses == LIBUSB_TRANSFER_COMPLETED..LIBUSB_TRANSFER_OVERFLOW
Transient == {LIBUSB_TRANSFER_TIMED_OUT, LIBUSB_TRANSFER_STALL,
              LIBUSB_TRANSFER_OVERFLOW}

\* enum libusb_error: the codes a libusb call can fail with
LIBUSB_ERROR_IO == -1
LIBUSB_ERROR_BUSY == -6
LIBUSB_ERROR_TIMEOUT == -7
LibusbErrors == ((-12)..(-1)) \cup {-99}

\* le64toh / htole64: identity on a little-endian host, byte swap otherwise
le64toh(x) == IF hostLE THEN x ELSE bswap64(x)
htole64(x) == IF hostLE THEN x ELSE bswap64(x)

\* Transfer lengths and "bytes available" counts the device produces
Lens == {0, 8}

\* ---- libusb: transfer objects and device handles ----
MaxUrbs == 2 * MaxArrivals
UrbIds == 1..MaxUrbs
NoUrb == [st |-> "none", cb |-> "none", intr |-> FALSE, gen |-> 0, h |-> 0,
          ep |-> 0, size |-> 0]

Outstanding(u) == u.st \in {"inflight", "cancelling"}
OutstandingId(l, id) == id # 0 /\ Outstanding(l.urbs[id])

\* libusb_alloc_transfer(0): the first transfer object not yet handed out
libusb_alloc_transfer(l, gen) ==
  LET id == l.nurb + 1
  IN [l EXCEPT !.nurb = id,
               !.urbs[id] = [NoUrb EXCEPT !.st = "idle", !.gen = gen]]

\* libusb_free_transfer(urb); a NULL pointer is accepted
libusb_free_transfer(l, id) ==
  IF id = 0 THEN l ELSE [l EXCEPT !.urbs[id] = NoUrb]

\* libusb_fill_bulk_transfer / libusb_fill_interrupt_transfer
libusb_fill_transfer(l, id, cb, intr, h, ep, size) ==
  IF Outstanding(l.urbs[id]) THEN l
  ELSE [l EXCEPT !.urbs[id].cb = cb, !.urbs[id].intr = intr,
                 !.urbs[id].h = h, !.urbs[id].ep = ep,
                 !.urbs[id].size = size]

\* libusb_submit_transfer(urb): a transfer already submitted is refused
\* with LIBUSB_ERROR_BUSY; otherwise the library accepts it or fails with
\* the code rc.
SubmitRc(l, id, rc) ==
  IF Outstanding(l.urbs[id]) THEN LIBUSB_ERROR_BUSY ELSE rc

libusb_submit_transfer(l, id, rc) ==
  IF SubmitRc(l, id, rc) = 0 THEN [l EXCEPT !.urbs[id].st = "inflight"]
  ELSE l

\* libusb_cancel_transfer(urb): asynchronous, the completion comes later
libusb_cancel_transfer(l, id) ==
  IF id # 0 /\ l.urbs[id].st = "inflight"
  THEN [l EXCEPT !.urbs[id].st = "cancelling"] ELSE l

\* libusb_open: a fresh handle
libusb_open(l) ==
  [l EXCEPT !.nhandle = @ + 1, !.handles[l.nhandle + 1] = "open"]

\* libusb_close(handle)
libusb_close(l, h) ==
  [l EXCEPT !.handles[h] = "closed", !.closes[h] = @ + 1]

LibInit == [urbs |-> [u \in UrbIds |-> NoUrb], nurb |-> 0,
            handles |-> [h \in 1..MaxArrivals |-> "none"],
            closes |-> [h \in 1..MaxArrivals |-> 0], nhandle |-> 0,
            plugged |-> 0, arrivals |-> 0, need_probe |-> FALSE,
            crashed |-> FALSE]

\* ---- rshim_usb_t and its rshim_backend_t ----
NullBuf == [alloc |-> FALSE, val |-> 0]

\* calloc(1, sizeof(*dev)): every field zero
DevZero(gen) ==
  [alive |-> gen > 0, gen |-> gen,
   has_rshim |-> FALSE, has_tm |-> FALSE, drop_mode |-> FALSE,
   registered |-> FALSE, bd_dev |-> 0, ref |-> 0, spin_flags |-> {},
   read_buf_bytes |-> 0, read_buf_next |-> 0,
   handle |-> 0, ctrl_data |-> Zero64, intr_buf |-> NullBuf,
   read_or_intr_urb |-> 0, read_or_intr_retries |-> 0,
   read_urb_is_intr |-> FALSE, write_urb |-> 0, write_retries |-> 0,
   boot_fifo_ep |-> 0, tm_fifo_int_ep |-> 0, tm_fifo_in_ep |-> 0,
   tm_fifo_out_ep |-> 0]

\* What one handler did: its inputs, what it found, what it emitted
EvNone == [op |-> "none", status |-> 0, len |-> 0, rc |-> 0, libRc |-> 0,
           retries |-> 0, busy |-> FALSE, sub |-> FALSE, resub |-> FALSE,
           ub |-> FALSE, intr |-> FALSE, notes |-> <<>>, pre |-> <<>>,
           result |-> Zero64, steps |-> <<>>]

Bookkeeping(d) == <<d.intr_buf, d.read_buf_bytes, d.read_buf_next>>

\* A handler's working state: the device, the library, the notifications
World(d, l) == [dev |-> d, lib |-> l, notes |-> <<>>, sub |-> FALSE,
                rc |-> 0, steps |-> <<>>]

\* The handler's calls into the library and the registry, in program order
Did(w, s) == [w EXCEPT !.steps = Append(@, s)]

\* rshim_notify(bd, event, code)
rshim_notify(w, e, code) ==
  Did([w EXCEPT !.notes = Append(@, [e |-> e, code |-> code])], e)

\* x > 0 ? -x : x
NegCode(x) == IF x > 0 THEN -x ELSE x

\* Mutant of ReadCanRetry: the ceiling test is off by one.
ReadCanRetryLate(retries, len) == retries <= READ_RETRIES /\ len = 0

\* dev->read_or_intr_retries < READ_RETRIES && urb->actual_length == 0
ReadCanRetry(retries, len) == retries < READ_RETRIES /\ len = 0

\* dev->write_retries < WRITE_RETRIES && urb->actual_length == 0
WriteCanRetry(retries, len) == retries < WRITE_RETRIES /\ len = 0

\* Mutant of SwitchCase: an explicit cancellation is taken as an error.
SwitchCaseCancelErr(status, retryOk) ==
  CASE status = LIBUSB_TRANSFER_COMPLETED -> "completed"
    [] status = LIBUSB_TRANSFER_NO_DEVICE -> "ignore"
    [] status \in Transient -> IF retryOk THEN "retry" ELSE "ignore"
    [] OTHER -> "error"

\* switch (urb->status) of both completion handlers: a transient status
\* that is not retried falls through into the LIBUSB_TRANSFER_CANCELLED case
SwitchCase(status, retryOk) ==
  CASE status = LIBUSB_TRANSFER_COMPLETED -> "completed"
    [] status = LIBUSB_TRANSFER_NO_DEVICE -> "ignore"
    [] status \in Transient -> IF retryOk THEN "retry" ELSE "ignore"
    [] status = LIBUSB_TRANSFER_CANCELLED -> "ignore"
    [] OTHER -> "error"

\* Mutant of Resubmitted: the busy flag is not set again.
ResubmittedNoFlag(w, flag) == w

\* the resubmission was accepted: bd->spin_flags |= flag
Resubmitted(w, flag) == [w EXCEPT !.dev.spin_flags = @ \cup {flag}]

\* rc = libusb_submit_transfer(urb) in a completion handler, and what
\* follows from rc
Resubmit(w, id, flag, rc) ==
  LET r == SubmitRc(w.lib, id, rc)
      w1 == [w EXCEPT !.lib = libusb_submit_transfer(w.lib, id, rc),
                      !.sub = TRUE]
  IN IF r # 0 THEN rshim_notify(w1, "FIFO_ERR", NegCode(r))
     ELSE Resubmitted(w1, flag)

\* Mutant of rshim_usb_fifo_read_callback: a completed bulk read leaves the
\* interrupt scratch count as it was.
rshim_usb_fifo_read_callback_keep_count(w, id, status, len, rc) ==
  LET w0 == [w EXCEPT !.dev.spin_flags = @ \ {"READING"}]
      c == SwitchCase(status,
                      ReadCanRetry(w.dev.read_or_intr_retries, len))
  IN CASE c = "completed" ->
            rshim_notify(
              IF ~w0.dev.read_urb_is_intr
              THEN [w0 EXCEPT !.dev.read_buf_bytes = len,
                              !.dev.read_buf_next = 0]
              ELSE w0, "FIFO_INPUT", 0)
       [] c = "retry" ->
            Resubmit([w0 EXCEPT !.dev.read_or_intr_retries = @ + 1],
                     id, "READING", rc)
       [] c = "error" -> rshim_notify(w0, "FIFO_ERR", NegCode(status))
       [] OTHER -> w0

rshim_usb_fifo_read_callback(w, id, status, len, rc) ==
  LET w0 == [w EXCEPT !.dev.spin_flags = @ \ {"READING"}]
      c == SwitchCase(status,
                      ReadCanRetry(w.dev.read_or_intr_retries, len))
  IN CASE c = "completed" ->
            rshim_notify(
              IF ~w0.dev.read_urb_is_intr
              THEN [w0 EXCEPT !.dev.intr_buf.val = 0,
                              !.dev.read_buf_bytes = len,
                              !.dev.read_buf_next = 0]
              ELSE w0, "FIFO_INPUT", 0)
       [] c = "retry" ->
            Resubmit([w0 EXCEPT !.dev.read_or_intr_retries = @ + 1],
                     id, "READING", rc)
       [] c = "error" -> rshim_notify(w0, "FIFO_ERR", NegCode(status))
       [] OTHER -> w0

rshim_usb_fifo_write_callback(w, id, status, len, rc) ==
  LET w0 == [w EXCEPT !.dev.spin_flags = @ \ {"WRITING"}]
      c == SwitchCase(status, WriteCanRetry(w.dev.write_retries, len))
  IN CASE c = "completed" -> rshim_notify(w0, "FIFO_OUTPUT", 0)
       [] c = "retry" ->
            Resubmit([w0 EXCEPT !.dev.write_retries = @ + 1],
                     id, "WRITING", rc)
       [] c = "error" -> rshim_notify(w0, "FIFO_ERR", NegCode(status))
       [] OTHER -> w0

\* (int) *dev->intr_buf || bd->read_buf_bytes
\* sizeof(*dev->intr_buf)
IntrSize == 8

\* Mutant of ReadIsBulk: bytes left from the last bulk read do not count.
ReadIsBulkCountOnly(d) == d.intr_buf.val # 0

\* (int) *dev->intr_buf || bd->read_buf_bytes; the counts a device reports
\* (Lens) are below 2^31, where the cast to int keeps the value
ReadIsBulk(d) == d.intr_buf.val # 0 \/ d.read_buf_bytes # 0

rshim_usb_fifo_read(w, count, rc) ==
  LET d == w.dev
      id == d.read_or_intr_urb
      intr == ~ReadIsBulk(d)
      r == SubmitRc(w.lib, id, rc)
      l1 == IF intr
            THEN libusb_fill_transfer(w.lib, id, "read", TRUE, d.handle,
                                      d.tm_fifo_int_ep, IntrSize)
            ELSE libusb_fill_transfer(w.lib, id, "read", FALSE, d.handle,
                                      d.tm_fifo_in_ep, count)
      d1 == [d EXCEPT !.spin_flags = @ \cup {"READING"},
                      !.read_urb_is_intr = intr,
                      !.read_or_intr_retries = 0]
  IN IF ~d.has_rshim \/ ~d.has_tm \/ d.drop_mode THEN w
     ELSE [w EXCEPT !.lib = libusb_submit_transfer(l1, id, rc),
                    !.sub = TRUE, !.rc = r,
                    !.dev = IF r # 0
                            THEN [d1 EXCEPT !.spin_flags = @ \ {"READING"}]
                            ELSE d1]

rshim_usb_fifo_write(w, count, rc) ==
  LET d == w.dev
      id == d.write_urb
      r == SubmitRc(w.lib, id, rc)
      l1 == libusb_fill_transfer(w.lib, id, "write", FALSE, d.handle,
                                 d.tm_fifo_out_ep, count)
      d1 == [d EXCEPT !.write_retries = 0]
  IN IF ~d.has_rshim \/ ~d.has_tm THEN [w EXCEPT !.rc = -ENODEV]
     ELSE IF d.drop_mode THEN [w EXCEPT !.rc = 0]
     ELSE [w EXCEPT !.lib = libusb_submit_transfer(l1, id, rc),
                    !.sub = TRUE,
                    !.rc = IF r # 0 THEN -1 ELSE 0,
                    !.dev = IF r # 0
                            THEN [d1 EXCEPT !.spin_flags = @ \ {"WRITING"}]
                            ELSE [d1 EXCEPT !.spin_flags = @ \cup {"WRITING"}]]

\* rshim_usb_boot_write: a blocking bulk transfer to the boot endpoint, with
\* no test of has_rshim, has_tm or drop_mode before it
rshim_usb_boot_write(w, libRc, transferred) ==
  [w EXCEPT !.sub = TRUE,
            !.rc = IF libRc = 0 \/ libRc = LIBUSB_ERROR_TIMEOUT
                   THEN transferred ELSE libRc]

\* ---- register access over the control endpoint ----
\* rc == sizeof(dev->ctrl_data) ? 0 :
\*   rc >= 0 ? (rc > sizeof(dev->ctrl_data) ? -EINVAL : -ENXIO) : rc
ControlRc(rc) ==
  IF rc = CtrlSize THEN 0
  ELSE IF rc >= 0 THEN (IF rc > CtrlSize THEN -EINVAL ELSE -ENXIO)
  ELSE rc

\* Returns of libusb_control_transfer: a byte count or a libusb error
CtrlRcs == {0, 4, CtrlSize, 12} \cup LibusbErrors

\* Mutant of rshim_usb_read_rshim: the test of bd->has_rshim is left out.
rshim_usb_read_rshim_unguarded(w, libRc, data) ==
  [w EXCEPT !.dev.ctrl_data = IF libRc > 0 THEN data ELSE @,
            !.sub = TRUE, !.rc = ControlRc(libRc)]

\* w.sub: libusb_control_transfer was called
rshim_usb_read_rshim(w, libRc, data) ==
  IF ~w.dev.has_rshim THEN [w EXCEPT !.rc = -ENODEV]
  ELSE [w EXCEPT !.dev.ctrl_data = IF libRc > 0 THEN data ELSE @,
                 !.sub = TRUE, !.rc = ControlRc(libRc)]

rshim_usb_write_rshim(w, libRc, value) ==
  IF ~w.dev.has_rshim THEN [w EXCEPT !.rc = -ENODEV]
  ELSE [w EXCEPT !.dev.ctrl_data = htole64(value),
                 !.sub = TRUE, !.rc = ControlRc(libRc)]

\* ---- registry (rshim.c): lookup, registration, reference counting ----
rshim_find_by_dev(d, usb_dev) ==
  d.alive /\ d.registered /\ d.bd_dev = usb_dev

rshim_find_by_name(d) == d.alive /\ d.registered

rshim_register(w, rc) ==
  LET w1 == Did(w, IF w.dev.registered THEN "register_again" ELSE "register")
  IN IF rc = 0 THEN [w1 EXCEPT !.dev.registered = TRUE, !.rc = 0]
     ELSE [w1 EXCEPT !.rc = rc]

\* rshim_usb_delete: bd->destroy
rshim_usb_delete(w) ==
  LET h == w.dev.handle
  IN [w EXCEPT !.dev.registered = FALSE,
               !.lib = IF h # 0 THEN libusb_close(w.lib, h) ELSE @,
               !.dev = [DevZero(w.dev.gen) EXCEPT !.alive = FALSE]]

\* rshim_ref(bd)
rshim_ref(w) == Did([w EXCEPT !.dev.ref = @ + 1], "ref")

\* rshim_deref: the last reference destroys the backend
rshim_deref(w) ==
  LET w1 == Did([w EXCEPT !.dev.ref = @ - 1], "deref")
  IN IF w1.dev.ref = 0 THEN rshim_usb_delete(w1) ELSE w1

\* ---- probe ----
Ep(in, type, addr) == [in |-> in, type |-> type, addr |-> addr]
Iface(sub, eps) == [alt |-> TRUE, sub |-> sub, eps |-> eps]
RshimIface == Iface(0, <<Ep(FALSE, "bulk", 1)>>)
TmIface == Iface(1, <<Ep(TRUE, "int", 130), Ep(TRUE, "bulk", 129),
                      Ep(FALSE, "bulk", 2)>>)
Configs == { <<RshimIface, TmIface>>,
             <<TmIface, RshimIface>>,
             <<Iface(0, <<Ep(TRUE, "bulk", 129)>>), TmIface>> }

\* Descriptors whose subclass-0 interface has one endpoint that is inbound
\* or not bulk, listed before or after the tmfifo interface
InboundRshimIface == Iface(0, <<Ep(TRUE, "bulk", 129)>>)
IntRshimIface == Iface(0, <<Ep(FALSE, "int", 1)>>)
BadRshimConfigs == { <<InboundRshimIface, TmIface>>,
                     <<IntRshimIface, TmIface>>,
                     <<TmIface, InboundRshimIface>> }
ProbeConfigs == Configs \cup BadRshimConfigs

\* the endpoint loop of the tmfifo interface
RECURSIVE TmEndpoints(_, _, _)
TmEndpoints(d, eps, j) ==
  IF j > Len(eps) THEN d
  ELSE LET ep == eps[j]
           d1 == IF ep.in /\ ep.type = "bulk"
                   THEN [d EXCEPT !.tm_fifo_in_ep = ep.addr]
                 ELSE IF ep.in /\ ep.type = "int"
                   THEN [d EXCEPT !.tm_fifo_int_ep = ep.addr]
                 ELSE IF ~ep.in /\ ep.type = "bulk"
                   THEN [d EXCEPT !.tm_fifo_out_ep = ep.addr]
                 ELSE d
       IN TmEndpoints(d1, eps, j + 1)

\* for (i = 0; i < config->bNumInterfaces; i++): the endpoint loop runs on
\* the same i, so the scan resumes after index bNumEndpoints
RECURSIVE Interfaces(_, _, _)
Interfaces(d, config, i) ==
  IF i >= Len(config) THEN [ok |-> TRUE, dev |-> d]
  ELSE LET f == config[i + 1]
       IN IF ~f.alt THEN Interfaces(d, config, i + 1)
          ELSE IF f.sub = 0 THEN
            IF Len(f.eps) # 1 \/ f.eps[1].type # "bulk" \/ f.eps[1].in
            THEN [ok |-> FALSE, dev |-> d]
            ELSE Interfaces([d EXCEPT !.has_rshim = TRUE,
                                      !.boot_fifo_ep = f.eps[1].addr],
                            config, i + 1)
          ELSE IF f.sub = 1 THEN
            IF Len(f.eps) # 3 THEN [ok |-> FALSE, dev |-> d]
            ELSE LET d1 == TmEndpoints([d EXCEPT !.tm_fifo_in_ep = 0,
                                                 !.tm_fifo_int_ep = 0,
                                                 !.tm_fifo_out_ep = 0],
                                       f.eps, 1)
                 IN IF d1.tm_fifo_in_ep = 0 \/ d1.tm_fifo_int_ep = 0
                       \/ d1.tm_fifo_out_ep = 0
                    THEN [ok |-> FALSE, dev |-> d1]
                    ELSE Interfaces([d1 EXCEPT !.has_tm = TRUE], config,
                                    Len(f.eps) + 1)
          ELSE [ok |-> FALSE, dev |-> d]

\* Mutant of ProbeError: the error path releases the reference twice.
ProbeErrorReleasesTwice(w, rc) ==
  LET l1 == libusb_free_transfer(
              libusb_free_transfer(w.lib, w.dev.read_or_intr_urb),
              w.dev.write_urb)
      w1 == rshim_deref([w EXCEPT !.lib = l1,
                                  !.dev.read_or_intr_urb = 0,
                                  !.dev.write_urb = 0,
                                  !.dev.intr_buf = NullBuf,
                                  !.rc = rc])
  IN Did(IF w1.dev.alive THEN rshim_deref(w1) ELSE w1, "rshim_unlock")

\* Mutant of ProbeError: the error path returns without rshim_unlock.
ProbeErrorKeepsLock(w, rc) ==
  LET l1 == libusb_free_transfer(
              libusb_free_transfer(w.lib, w.dev.read_or_intr_urb),
              w.dev.write_urb)
  IN rshim_deref([w EXCEPT !.lib = l1,
                           !.dev.read_or_intr_urb = 0,
                           !.dev.write_urb = 0,
                           !.dev.intr_buf = NullBuf,
                           !.rc = rc])

\* error: of rshim_usb_probe_one, with dev set, to the return
ProbeError(w, rc) ==
  LET l1 == libusb_free_transfer(
              libusb_free_transfer(w.lib, w.dev.read_or_intr_urb),
              w.dev.write_urb)
  IN Did(rshim_deref([w EXCEPT !.lib = l1,
                               !.dev.read_or_intr_urb = 0,
                               !.dev.write_urb = 0,
                               !.dev.intr_buf = NullBuf,
                               !.rc = rc]), "rshim_unlock")

\* Outcomes of the calls rshim_usb_probe_one makes: at most one of them
\* fails, with the code rc
ProbeFaults == {"none", "ports", "deny", "config", "open", "claim",
                "calloc", "intr_buf", "urb", "register", "notify", "list"}

AllocUrbs(w) ==
  LET l1 == IF w.dev.read_or_intr_urb = 0
            THEN libusb_alloc_transfer(w.lib, w.dev.gen) ELSE w.lib
      r == IF w.dev.read_or_intr_urb = 0 THEN l1.nurb
           ELSE w.dev.read_or_intr_urb
      l2 == IF w.dev.write_urb = 0
            THEN libusb_alloc_transfer(l1, w.dev.gen) ELSE l1
      x == IF w.dev.write_urb = 0 THEN l2.nurb ELSE w.dev.write_urb
  IN [w EXCEPT !.lib = l2, !.dev.read_or_intr_urb = r, !.dev.write_urb = x]

\* rshim_usb_probe_one from "Probing %s" on: the device name is allowed
ProbeAllowed(w, usb_dev, config, fault, rc) ==
  IF fault = "config" THEN [w EXCEPT !.rc = -ENODEV]
  ELSE IF fault = "open" THEN [w EXCEPT !.rc = rc]
  ELSE LET lo == libusb_open(w.lib)
           handle == lo.nhandle
       IN
    IF fault = "claim"
      THEN [w EXCEPT !.lib = libusb_close(lo, handle), !.rc = rc]
    ELSE IF ~rshim_find_by_name(w.dev) /\ fault = "calloc"
      THEN Did(Did([w EXCEPT !.lib = lo, !.rc = 0], "rshim_lock"),
               "rshim_unlock")
    ELSE
      LET d0 == IF rshim_find_by_name(w.dev) THEN w.dev
                ELSE DevZero(w.dev.gen + 1)
          wl == Did([w EXCEPT !.lib = lo, !.dev = d0], "rshim_lock")
          wr == rshim_ref(wl)
          w1 == [wr EXCEPT !.dev.bd_dev = usb_dev,
                           !.dev.handle = handle,
                           !.dev.intr_buf =
                               IF ~@.alloc /\ fault # "intr_buf"
                               THEN [alloc |-> TRUE, val |-> 0]
                               ELSE @]
          w2 == IF fault = "urb" THEN w1 ELSE AllocUrbs(w1)
          wm == Did(w2, "mutex_lock")
          s == Interfaces(wm.dev, config, 0)
          w3 == [wm EXCEPT !.dev = s.dev]
          w4 == rshim_register(w3, IF fault = "register" THEN rc ELSE 0)
          w5 == Did(rshim_notify(w4, "ATTACH", 0), "mutex_unlock")
      IN IF w2.dev.read_or_intr_urb = 0 \/ w2.dev.write_urb = 0
           THEN ProbeError(w2, 0)
         ELSE IF ~s.ok THEN ProbeError(Did(w3, "mutex_unlock"), 0)
         ELSE IF w4.rc # 0 THEN ProbeError(Did(w4, "mutex_unlock"), w4.rc)
         ELSE IF fault = "notify" THEN ProbeError(w5, rc)
         ELSE Did([w5 EXCEPT !.rc = 0], "rshim_unlock")

\* Mutant of rshim_usb_probe_one: rshim_allow_device is not asked.
rshim_usb_probe_one_unchecked(w0, usb_dev, config, fault, rc) ==
  LET w == Did(Did(w0, "rshim_lock"), "rshim_unlock")
  IN IF rshim_find_by_dev(w.dev, usb_dev) THEN [w EXCEPT !.rc = 0]
     ELSE IF fault = "ports" THEN [w EXCEPT !.rc = -ENODEV]
     ELSE ProbeAllowed(w, usb_dev, config, fault, rc)

\* the lookup by device runs under rshim_lock, which is released before
\* the name is built
rshim_usb_probe_one(w0, usb_dev, config, fault, rc) ==
  LET w == Did(Did(w0, "rshim_lock"), "rshim_unlock")
  IN IF rshim_find_by_dev(w.dev, usb_dev) THEN [w EXCEPT !.rc = 0]
     ELSE IF fault = "ports" THEN [w EXCEPT !.rc = -ENODEV]
     ELSE IF fault = "deny" THEN [w EXCEPT !.rc = -EACCES]
     ELSE ProbeAllowed(w, usb_dev, config, fault, rc)

\* ---- detach ----
rshim_usb_disconnect(w, usb_dev) ==
  IF ~rshim_find_by_dev(w.dev, usb_dev)
  THEN Did(Did(w, "rshim_lock"), "rshim_unlock")
  ELSE
    LET w1 == Did(rshim_notify(Did(w, "rshim_lock"), "DETACH", 0),
                  "mutex_lock")
        wr == Did([w1 EXCEPT
                     !.dev.has_rshim = FALSE,
                     !.lib = libusb_cancel_transfer(@, w1.dev.read_or_intr_urb),
                     !.dev.read_or_intr_urb = 0], "cancel_read")
        ww == Did([wr EXCEPT
                     !.lib = libusb_cancel_transfer(@, wr.dev.write_urb),
                     !.dev.write_urb = 0,
                     !.dev.intr_buf = NullBuf], "cancel_write")
        wu == Did(ww, "mutex_unlock")
        h == wu.dev.handle
        w2 == IF h # 0
              THEN Did([wu EXCEPT !.lib = libusb_close(@, h),
                                  !.dev.handle = 0], "close")
              ELSE wu
    IN Did(rshim_deref(w2), "rshim_unlock")

\* ---- state of the USB side ----
HistInit == [rdResub |-> 0, wrResub |-> 0, upper |-> 0,
             det |-> "no", detRead |-> 0, detWrite |-> 0, detHandle |-> 0,
             detErr |-> FALSE, detDone |-> FALSE]

UsbInit ==
  /\ dev = DevZero(0)
  /\ lib = LibInit
  /\ ev = EvNone
  /\ hist = HistInit

HasErr(notes) == \E i \in 1..Len(notes) : notes[i].e = "FIFO_ERR"

Ev(op, w) == [EvNone EXCEPT !.op = op, !.notes = w.notes, !.rc = w.rc,
                            !.sub = w.sub, !.pre = Bookkeeping(w.dev),
                            !.steps = w.steps]

Seen(h, w) == [h EXCEPT !.detErr = @ \/ (h.det # "no" /\ HasErr(w.notes))]

UsbCommit(w, e, h) ==
  /\ dev' = w.dev
  /\ lib' = w.lib
  /\ ev' = e
  /\ hist' = Seen(h, w)

\* the handler dereferenced a NULL or dangling pointer and the process died
Crash(l, e) ==
  /\ lib' = [l EXCEPT !.crashed = TRUE]
  /\ ev' = [e EXCEPT !.ub = TRUE]
  /\ UNCHANGED <<dev, hist>>

Running == ~lib.crashed

\* Mutant of HotplugArrived: the arrival does not set rshim_usb_need_probe.
HotplugArrivedNoFlag ==
  /\ Running
  /\ lib.plugged = 0
  /\ lib.arrivals < MaxArrivals
  /\ lib' = [lib EXCEPT !.arrivals = @ + 1, !.plugged = lib.arrivals + 1]
  /\ ev' = [EvNone EXCEPT !.op = "arrived"]
  /\ UNCHANGED <<dev, hist>>

\* rshim_hotplug_callback(LIBUSB_HOTPLUG_EVENT_DEVICE_ARRIVED)
HotplugArrived ==
  /\ Running
  /\ lib.plugged = 0
  /\ lib.arrivals < MaxArrivals
  /\ lib' = [lib EXCEPT !.arrivals = @ + 1, !.plugged = lib.arrivals + 1,
                        !.need_probe = TRUE]
  /\ ev' = [EvNone EXCEPT !.op = "arrived"]
  /\ UNCHANGED <<dev, hist>>

\* rshim_hotplug_callback(LIBUSB_HOTPLUG_EVENT_DEVICE_LEFT)
HotplugLeft ==
  /\ Running
  /\ lib.plugged # 0
  /\ LET usb_dev == lib.plugged
         l0 == [lib EXCEPT !.plugged = 0]
         w0 == World(dev, l0)
         found == rshim_find_by_dev(dev, usb_dev)
         r == dev.read_or_intr_urb
         w == rshim_usb_disconnect(w0, usb_dev)
         h == IF ~found THEN hist
              ELSE [hist EXCEPT
                      !.det = IF ~Outstanding(lib.urbs[r]) THEN "idle"
                              ELSE IF lib.urbs[r].intr THEN "intr"
                              ELSE "bulk",
                      !.detRead = r, !.detWrite = dev.write_urb,
                      !.detHandle = dev.handle,
                      !.detErr = FALSE, !.detDone = FALSE]
     IN IF found /\ (r = 0 \/ dev.write_urb = 0)
        THEN Crash(l0, Ev("disconnect", w0))
        ELSE UsbCommit(w, Ev("disconnect", w), h)

ProbeRcs == {LIBUSB_ERROR_IO}

\* rshim_usb_poll with rshim_usb_need_probe set: rshim_usb_probe on the
\* device list, which holds the plugged device if there is one
Poll(config, fault, rc) ==
  /\ Running
  /\ lib.need_probe
  /\ LET l0 == [lib EXCEPT !.need_probe = FALSE]
         w0 == World(dev, l0)
         w == IF lib.plugged = 0 \/ fault = "list" THEN w0
              ELSE rshim_usb_probe_one(w0, lib.plugged, config, fault, rc)
     IN UsbCommit(w, Ev("probe", w), [hist EXCEPT !.det = "no"])

Owner(u) == dev.alive /\ u.gen = dev.gen

\* libusb_handle_events completes a read-or-interrupt transfer
ReadCallback(id, status, len, avail, rc, dbg) ==
  /\ Running
  /\ Outstanding(lib.urbs[id])
  /\ lib.urbs[id].cb = "read"
  /\ LET u == lib.urbs[id]
         l0 == [lib EXCEPT !.urbs[id].st = "idle"]
         d0 == IF u.intr /\ status = LIBUSB_TRANSFER_COMPLETED
                  /\ dev.intr_buf.alloc
               THEN [dev EXCEPT !.intr_buf.val = avail] ELSE dev
         w0 == World(d0, l0)
         w == rshim_usb_fifo_read_callback(w0, id, status, len, rc)
         e == [Ev("read_cb", w) EXCEPT
                 !.status = status, !.len = len, !.intr = u.intr,
                 !.retries = dev.read_or_intr_retries,
                 !.busy = "READING" \in dev.spin_flags,
                 !.resub = w.sub, !.pre = Bookkeeping(d0)]
         h == [hist EXCEPT
                 !.rdResub = IF w.sub THEN @ + 1 ELSE @,
                 !.detDone = @ \/ (hist.det # "no" /\ id = hist.detRead
                                   /\ status = LIBUSB_TRANSFER_NO_DEVICE)]
     IN IF ~Owner(u)
        THEN \/ Crash(l0, e)
             \/ /\ lib' = l0
                /\ ev' = [Ev("read_cb", w0) EXCEPT !.status = status,
                                                   !.len = len, !.ub = TRUE]
                /\ hist' = [hist EXCEPT !.detDone = h.detDone]
                /\ UNCHANGED dev
        ELSE IF ~dev.intr_buf.alloc
                /\ (dbg \/ (status = LIBUSB_TRANSFER_COMPLETED
                            /\ ~dev.read_urb_is_intr))
        THEN Crash(l0, e)
        ELSE UsbCommit(w, e, h)

\* libusb_handle_events completes a write transfer
WriteCallback(id, status, len, rc, dbg) ==
  /\ Running
  /\ Outstanding(lib.urbs[id])
  /\ lib.urbs[id].cb = "write"
  /\ LET u == lib.urbs[id]
         l0 == [lib EXCEPT !.urbs[id].st = "idle"]
         w0 == World(dev, l0)
         w == rshim_usb_fifo_write_callback(w0, id, status, len, rc)
         e == [Ev("write_cb", w) EXCEPT
                 !.status = status, !.len = len,
                 !.retries = dev.write_retries,
                 !.busy = "WRITING" \in dev.spin_flags,
                 !.resub = w.sub, !.pre = Bookkeeping(dev)]
         h == [hist EXCEPT !.wrResub = IF w.sub THEN @ + 1 ELSE @]
     IN IF ~Owner(u)
        THEN \/ Crash(l0, e)
             \/ /\ lib' = l0
                /\ ev' = [Ev("write_cb", w0) EXCEPT !.status = status,
                                                    !.len = len, !.ub = TRUE]
                /\ UNCHANGED <<dev, hist>>
        ELSE IF ~dev.intr_buf.alloc /\ dbg THEN Crash(l0, e)
        ELSE UsbCommit(w, e, h)

\* rshim.c starts a transfer of a direction only while the direction's
\* busy flag is clear
UpperMaySubmit(d, flag) ==
  d.alive /\ d.registered /\ flag \notin d.spin_flags

\* bd->read(bd, RSH_DEV_TYPE_TMFIFO, buf, count)
FifoRead(count, rc) ==
  /\ Running
  /\ UpperMaySubmit(dev, "READING")
  /\ LET w0 == World(dev, lib)
         w == rshim_usb_fifo_read(w0, count, rc)
         e == [Ev("fifo_read", w) EXCEPT
                 !.len = count,
                 !.busy = OutstandingId(lib, dev.read_or_intr_urb),
                 !.intr = ~ReadIsBulk(dev)]
         h == [hist EXCEPT !.rdResub = IF w.sub THEN 0 ELSE @]
         guarded == ~dev.has_rshim \/ ~dev.has_tm \/ dev.drop_mode
     IN IF ~guarded /\ (~dev.intr_buf.alloc \/ dev.read_or_intr_urb = 0)
        THEN Crash(lib, Ev("fifo_read", w0))
        ELSE UsbCommit(w, e, h)

\* bd->write(bd, RSH_DEV_TYPE_TMFIFO, buf, count)
FifoWrite(count, rc) ==
  /\ Running
  /\ UpperMaySubmit(dev, "WRITING")
  /\ LET w0 == World(dev, lib)
         w == rshim_usb_fifo_write(w0, count, rc)
         e == [Ev("fifo_write", w) EXCEPT
                 !.len = count,
                 !.busy = OutstandingId(lib, dev.write_urb)]
         h == [hist EXCEPT !.wrResub = IF w.sub THEN 0 ELSE @]
         guarded == ~dev.has_rshim \/ ~dev.has_tm \/ dev.drop_mode
     IN IF ~guarded /\ dev.write_urb = 0
        THEN Crash(lib, Ev("fifo_write", w0))
        ELSE UsbCommit(w, e, h)

\* bd->write(bd, RSH_DEV_TYPE_BOOT, buf, count); libusb_bulk_transfer
\* dereferences dev->handle, which rshim_usb_disconnect has set to NULL
BootWrite(libRc, transferred) ==
  /\ Running
  /\ dev.alive /\ dev.registered
  /\ LET w0 == World(dev, lib)
         w == rshim_usb_boot_write(w0, libRc, transferred)
     IN IF dev.handle = 0
        THEN Crash(lib, Ev("boot_write", w0))
        ELSE UsbCommit(w, [Ev("boot_write", w) EXCEPT
                             !.libRc = libRc, !.len = transferred], hist)

\* bd->cancel(bd, RSH_DEV_TYPE_TMFIFO, is_write), on a stream being closed
rshim_usb_backend_cancel_req(w, is_write) ==
  [w EXCEPT !.lib = libusb_cancel_transfer(
                      @, IF is_write THEN w.dev.write_urb
                         ELSE w.dev.read_or_intr_urb)]

CancelReq(is_write) ==
  /\ Running
  /\ dev.alive /\ dev.registered /\ dev.has_rshim
  /\ LET w0 == World(dev, lib)
         id == IF is_write THEN dev.write_urb ELSE dev.read_or_intr_urb
         w == rshim_usb_backend_cancel_req(w0, is_write)
     IN IF id = 0 THEN Crash(lib, Ev("cancel", w0))
        ELSE UsbCommit(w, Ev("cancel", w), hist)

\* bd->read_rshim(bd, chan, addr, &result)
ReadRshim(libRc, data) ==
  /\ Running
  /\ dev.alive /\ dev.registered
  /\ LET w == rshim_usb_read_rshim(World(dev, lib), libRc, data)
     IN UsbCommit(w, [Ev("read_rshim", w) EXCEPT
                        !.libRc = libRc,
                        !.result = le64toh(w.dev.ctrl_data)], hist)

\* bd->write_rshim(bd, chan, addr, value)
WriteRshim(libRc, value) ==
  /\ Running
  /\ dev.alive /\ dev.registered
  /\ LET w == rshim_usb_write_rshim(World(dev, lib), libRc, value)
     IN UsbCommit(w, [Ev("write_rshim", w) EXCEPT
                        !.libRc = libRc], hist)

\* an upper layer takes a reference of its own (rshim_ref)
UpperRef ==
  /\ Running
  /\ dev.alive /\ dev.registered
  /\ hist.upper < MaxUpperRefs
  /\ dev' = [dev EXCEPT !.ref = @ + 1]
  /\ hist' = [hist EXCEPT !.upper = @ + 1]
  /\ ev' = [EvNone EXCEPT !.op = "ref"]
  /\ UNCHANGED lib

\* and gives it back (rshim_deref)
UpperDeref ==
  /\ Running
  /\ dev.alive
  /\ hist.upper > 0
  /\ LET w == rshim_deref(World(dev, lib))
     IN UsbCommit(w, Ev("deref", w), [hist EXCEPT !.upper = @ - 1])

\* the upper layer has consumed the bytes of the last bulk read
UpperConsume ==
  /\ Running
  /\ dev.alive /\ dev.read_buf_bytes # 0
  /\ dev' = [dev EXCEPT !.read_buf_bytes = 0, !.read_buf_next = 0]
  /\ ev' = [EvNone EXCEPT !.op = "consume"]
  /\ UNCHANGED <<lib, hist>>

\* the upper layer switches drop mode
SetDropMode(b) ==
  /\ Running
  /\ dev.alive /\ dev.registered /\ dev.drop_mode # b
  /\ dev' = [dev EXCEPT !.drop_mode = b]
  /\ ev' = [EvNone EXCEPT !.op = "drop_mode"]
  /\ UNCHANGED <<lib, hist>>

SubmitRcs == {0, LIBUSB_ERROR_IO}
\* Sizes of the caller's buffer
Counts == {8, 16}
WriteCounts == {8}
\* Returns of libusb_bulk_transfer and the size of one boot-stream write
BulkRcs == {0, LIBUSB_ERROR_TIMEOUT, LIBUSB_ERROR_IO}
BootChunk == 8
CtrlData == {<<1, 2, 3, 4, 5, 6, 7, 8>>, <<0, 0, 0, 0, 0, 0, 0, 9>>}

\* Inputs of a completion that the handler can tell apart
AvailFor(id, status) ==
  IF lib.urbs[id].intr /\ status = LIBUSB_TRANSFER_COMPLETED THEN Lens
  ELSE {0}
RcFor(status) == IF status \in Transient THEN SubmitRcs ELSE {0}
DbgFor == IF dev.intr_buf.alloc THEN {FALSE} ELSE BOOLEAN

ReadCompletes(statuses) ==
  \E id \in UrbIds, status \in statuses, len \in Lens :
    \E avail \in AvailFor(id, status), rc \in RcFor(status), dbg \in DbgFor :
      ReadCallback(id, status, len, avail, rc, dbg)

WriteCompletes(statuses) ==
  \E id \in UrbIds, status \in statuses, len \in Lens :
    \E rc \in RcFor(status), dbg \in DbgFor :
      WriteCallback(id, status, len, rc, dbg)

\* The device after its arrival and a successful probe
GoodConfig == <<RshimIface, TmIface>>
LibArrived == [LibInit EXCEPT !.arrivals = 1, !.plugged = 1]
Probed ==
  rshim_usb_probe_one(World(DevZero(0), LibArrived), 1, GoodConfig,
                      "none", 0)

\* ... with k references taken by upper layers
ProbedInit(k) ==
  /\ dev = [Probed.dev EXCEPT !.ref = @ + k]
  /\ lib = Probed.lib
  /\ ev = Ev("probe", Probed)
  /\ hist = [HistInit EXCEPT !.upper = k]

----------------------------------------------------------------------------
(* Specifications *)

vars == <<hostLE, has_rshim, write_count, cr, widget, call, log, gwLast,
          sinceDrain, lastWrite, dev, lib, ev, hist, gw, nt>>

\* The PCIe register path
PcieStart == PcieInit /\ UsbInit

SpecPcie == PcieStart /\ [][PcieNext]_vars

\* The USB FIFO engine on a probed device, up to and past its detach
StreamInit ==
  /\ PcieInit /\ hostLE
  /\ \E k \in 0..MaxUpperRefs : ProbedInit(k)

\* One direction at a time goes through transient failures: while the
\* other direction's retry counter is not 0, completions are not transient
StatusesWhile(otherRetries) ==
  IF otherRetries = 0 THEN TransferStatuses ELSE TransferStatuses \ Transient

StreamNext ==
  \/ \E count \in Counts, rc \in SubmitRcs :
       /\ FifoRead(count, rc)
       /\ UNCHANGED <<pcieVars, conVars>>
  \/ \E count \in WriteCounts, rc \in SubmitRcs :
       /\ FifoWrite(count, rc)
       /\ UNCHANGED <<pcieVars, conVars>>
  \/ /\ ReadCompletes(StatusesWhile(dev.write_retries))
     /\ UNCHANGED <<pcieVars, conVars>>
  \/ /\ WriteCompletes(StatusesWhile(dev.read_or_intr_retries))
     /\ UNCHANGED <<pcieVars, conVars>>
  \/ \E is_write \in BOOLEAN :
       /\ CancelReq(is_write)
       /\ UNCHANGED <<pcieVars, conVars>>
  \/ /\ UpperConsume
     /\ UNCHANGED <<pcieVars, conVars>>
  \/ /\ HotplugLeft
     /\ UNCHANGED <<pcieVars, conVars>>

SpecUsbStream ==
  StreamInit /\ [][StreamNext]_vars

\* USB register access on a probed device
CtrlInit == PcieInit /\ ProbedInit(0)

CtrlNext ==
  \/ \E libRc \in CtrlRcs, data \in CtrlData :
       /\ ReadRshim(libRc, data)
       /\ UNCHANGED <<pcieVars, conVars>>
  \/ \E libRc \in CtrlRcs, value \in CtrlData :
       /\ WriteRshim(libRc, value)
       /\ UNCHANGED <<pcieVars, conVars>>
  \/ /\ HotplugLeft
     /\ UNCHANGED <<pcieVars, conVars>>

SpecUsbCtrl ==
  CtrlInit /\ [][CtrlNext]_vars

\* Two threads of the process in trio_cr_gw_read on the same PCI device
\* The code does not say whether the device takes the lock for the caller
\* whose read finds it free: both kinds of device are tried
LockInit ==
  /\ PcieProbed
  /\ gw \in {[GwIdle EXCEPT !.lockOnRead = b] : b \in BOOLEAN}
  /\ nt = NtIdle
  /\ UsbInit

LockNext ==
  \/ \E t \in GwThreads :
       /\ GwEnter(t)
       /\ UNCHANGED usbVars /\ UNCHANGED nt
  \/ \E t \in GwThreads :
       /\ GwCfgWrite(t)
       /\ UNCHANGED usbVars /\ UNCHANGED nt
  \/ \E t \in GwThreads :
       /\ GwCfgRead(t)
       /\ UNCHANGED usbVars /\ UNCHANGED nt

SpecPcieLock == LockInit /\ [][LockNext]_vars

\* ---- the locks held around rshim_notify ----
NtOp(k, a, bd) == [k |-> k, a |-> a, bd |-> bd]
NtLock(l) == NtOp("lock", l, "none")
NtUnlock(l) == NtOp("unlock", l, "none")
NtNotify(bd, e) == <<NtOp("notify", e, bd), NtOp("notified", e, bd)>>

\* Mutant of CallbackProg: the completion handler does not take ringlock.
CallbackProgNoLock(e) ==
  IF e = "none" THEN <<>> ELSE NtNotify("usb", e)

\* rshim_usb_fifo_read_callback / rshim_usb_fifo_write_callback; e is the
\* event the status makes it notify, "none" for a status it only absorbs
CallbackProg(e) ==
  <<NtLock("usb.ringlock")>>
  \o (IF e = "none" THEN <<>> ELSE NtNotify("usb", e))
  \o <<NtUnlock("usb.ringlock")>>

\* rshim_usb_probe_one, from rshim_lock() to rshim_unlock()
UsbAttachProg ==
  <<NtLock("rshim_lock"), NtOp("bind", "none", "usb"), NtLock("usb.mutex")>>
  \o NtNotify("usb", "ATTACH")
  \o <<NtOp("attached", "none", "usb"),
       NtUnlock("usb.mutex"), NtUnlock("rshim_lock")>>

\* rshim_usb_disconnect: the notification comes before bd->mutex is taken
DisconnectProg ==
  <<NtLock("rshim_lock"), NtOp("find", "none", "usb")>>
  \o NtNotify("usb", "DETACH")
  \o <<NtLock("usb.mutex"), NtOp("unbind", "none", "usb"),
       NtUnlock("usb.mutex"), NtUnlock("rshim_lock")>>

\* rshim_pcie_probe: registration under rshim_lock, then the notification
\* under bd->mutex
PcieAttachProg ==
  <<NtLock("rshim_lock"), NtUnlock("rshim_lock"), NtLock("pcie.mutex")>>
  \o NtNotify("pcie", "ATTACH")
  \o <<NtUnlock("pcie.mutex")>>

FifoEvents == {"FIFO_INPUT", "FIFO_OUTPUT", "FIFO_ERR"}
MaxOut == 2

NtFree(t) == nt.prog[t] = <<>> /\ nt.events # t

\* a thread starts handling libusb events and is handed one callback
NtHandles(t) == NtFree(t) /\ nt.events = "none"

\* rshim_hotplug_callback(DEVICE_ARRIVED), in the events context
NtArrived(t) ==
  /\ NtHandles(t) /\ ~nt.plugged
  /\ nt' = [nt EXCEPT !.plugged = TRUE, !.need_probe = TRUE]

\* rshim_hotplug_callback(DEVICE_LEFT): rshim_usb_disconnect
NtLeft(t) ==
  /\ NtHandles(t) /\ nt.plugged
  /\ nt' = [nt EXCEPT !.plugged = FALSE, !.events = t,
                      !.prog[t] = DisconnectProg]

\* a transfer of the backend completes
NtCompletion(t, e) ==
  /\ NtHandles(t) /\ nt.out > 0
  /\ nt' = [nt EXCEPT !.out = @ - 1, !.events = t,
                      !.prog[t] = CallbackProg(e)]

\* rshim_usb_poll on the main thread: the deferred probe
NtProbe ==
  /\ NtFree("main") /\ nt.need_probe
  /\ nt' = [nt EXCEPT !.need_probe = FALSE,
                      !.prog["main"] = IF nt.plugged /\ ~nt.bound
                                       THEN UsbAttachProg ELSE <<>>]

\* rshim_pcie_probe on the main thread
NtPcieProbe ==
  /\ NtFree("main") /\ ~nt.pcieDone
  /\ nt' = [nt EXCEPT !.pcieDone = TRUE, !.prog["main"] = PcieAttachProg]

\* the upper layer starts a transfer on the attached backend
NtSubmit ==
  /\ nt.attached /\ nt.out < MaxOut
  /\ nt' = [nt EXCEPT !.out = @ + 1]

\* what is left to run after op, and the state it leaves
NtAfter(t, op, rest) ==
  LET n0 == [nt EXCEPT !.prog[t] = rest]
      n1 == IF op.k = "lock" THEN [n0 EXCEPT !.held[op.a] = t]
            ELSE IF op.k = "unlock" THEN [n0 EXCEPT !.held[op.a] = "none"]
            ELSE IF op.k = "notify"
              THEN [n0 EXCEPT !.inNotify[t] = [bd |-> op.bd, e |-> op.a]]
            ELSE IF op.k = "notified" THEN [n0 EXCEPT !.inNotify[t] = NoNote]
            ELSE IF op.k = "bind" THEN [n0 EXCEPT !.bound = TRUE]
            ELSE IF op.k = "attached" THEN [n0 EXCEPT !.attached = TRUE]
            ELSE IF op.k = "unbind"
              THEN [n0 EXCEPT !.bound = FALSE, !.attached = FALSE]
            ELSE IF nt.bound THEN n0
            ELSE [n0 EXCEPT !.prog[t] = <<NtUnlock("rshim_lock")>>]
  IN IF n1.prog[t] = <<>> /\ n1.events = t
     THEN [n1 EXCEPT !.events = "none"] ELSE n1

\* a thread runs the next statement of its routine; pthread_mutex_lock
\* waits while another thread owns the mutex
NtStep(t) ==
  /\ nt.prog[t] # <<>>
  /\ LET op == Head(nt.prog[t])
     IN /\ op.k = "lock" => nt.held[op.a] = "none"
        /\ nt' = NtAfter(t, op, Tail(nt.prog[t]))

NotifyInit == PcieInit /\ hostLE /\ UsbInit

NotifyNext ==
  \/ \E t \in NtThreads :
       /\ NtArrived(t)
       /\ UNCHANGED <<pcieVars, usbVars, gw>>
  \/ \E t \in NtThreads :
       /\ NtLeft(t)
       /\ UNCHANGED <<pcieVars, usbVars, gw>>
  \/ \E t \in NtThreads, e \in FifoEvents \cup {"none"} :
       /\ NtCompletion(t, e)
       /\ UNCHANGED <<pcieVars, usbVars, gw>>
  \/ /\ NtProbe
     /\ UNCHANGED <<pcieVars, usbVars, gw>>
  \/ /\ NtPcieProbe
     /\ UNCHANGED <<pcieVars, usbVars, gw>>
  \/ /\ NtSubmit
     /\ UNCHANGED <<pcieVars, usbVars, gw>>
  \/ \E t \in NtThreads :
       /\ NtStep(t)
       /\ UNCHANGED <<pcieVars, usbVars, gw>>

SpecUsbNotify == NotifyInit /\ [][NotifyNext]_vars

\* The read and write entry points of the USB backend with the flags and
\* drop mode in every combination the code reaches
GuardInit == PcieInit /\ hostLE /\ \E k \in 0..MaxUpperRefs : ProbedInit(k)

GuardNext ==
  \/ \E count \in Counts, rc \in SubmitRcs :
       /\ FifoRead(count, rc)
       /\ UNCHANGED <<pcieVars, conVars>>
  \/ \E count \in WriteCounts, rc \in SubmitRcs :
       /\ FifoWrite(count, rc)
       /\ UNCHANGED <<pcieVars, conVars>>
  \/ \E libRc \in BulkRcs, n \in {0, BootChunk} :
       /\ BootWrite(libRc, n)
       /\ UNCHANGED <<pcieVars, conVars>>
  \/ \E b \in BOOLEAN :
       /\ SetDropMode(b)
       /\ UNCHANGED <<pcieVars, conVars>>
  \/ /\ ReadCompletes({LIBUSB_TRANSFER_COMPLETED, LIBUSB_TRANSFER_NO_DEVICE})
     /\ UNCHANGED <<pcieVars, conVars>>
  \/ /\ WriteCompletes({LIBUSB_TRANSFER_COMPLETED, LIBUSB_TRANSFER_NO_DEVICE})
     /\ UNCHANGED <<pcieVars, conVars>>
  \/ /\ HotplugLeft
     /\ UNCHANGED <<pcieVars, conVars>>

SpecUsbGuard == GuardInit /\ [][GuardNext]_vars

\* Register access on both transports with the register bus present or
\* absent; the USB backend is held by an upper layer over its detach
RegBusInit == PcieInit /\ hostLE /\ ProbedInit(MaxUpperRefs)

RegBusNext ==
  \/ \E c \in Chans, r \in ReadRegs :
       /\ PcieRead(c, r)
       /\ UNCHANGED <<usbVars, conVars>>
  \/ \E c \in Chans, r \in Regs :
       /\ PcieWrite(c, r, Zero64)
       /\ UNCHANGED <<usbVars, conVars>>
  \/ /\ GwWriteStep(0)
     /\ UNCHANGED <<usbVars, conVars>>
  \/ /\ GwReadStep(0)
     /\ UNCHANGED <<usbVars, conVars>>
  \/ /\ PendWaitStep(0, Zero32)
     /\ UNCHANGED <<usbVars, conVars>>
  \/ /\ PcieReturn
     /\ UNCHANGED <<usbVars, conVars>>
  \/ \E b \in BOOLEAN :
       /\ PcieFlag(b)
       /\ UNCHANGED <<usbVars, conVars>>
  \/ \E libRc \in {CtrlSize, LIBUSB_ERROR_IO} :
       /\ ReadRshim(libRc, Zero64)
       /\ UNCHANGED <<pcieVars, conVars>>
  \/ \E libRc \in {CtrlSize, LIBUSB_ERROR_IO} :
       /\ WriteRshim(libRc, Zero64)
       /\ UNCHANGED <<pcieVars, conVars>>
  \/ /\ HotplugLeft
     /\ UNCHANGED <<pcieVars, conVars>>

SpecRegBus == RegBusInit /\ [][RegBusNext]_vars

\* USB attach and detach, with the streams completing normally
Settled == {LIBUSB_TRANSFER_COMPLETED, LIBUSB_TRANSFER_CANCELLED,
            LIBUSB_TRANSFER_NO_DEVICE}

LifeNext ==
  \/ /\ HotplugArrived
     /\ UNCHANGED <<pcieVars, conVars>>
  \/ /\ HotplugLeft
     /\ UNCHANGED <<pcieVars, conVars>>
  \/ \E config \in Configs, fault \in ProbeFaults, rc \in ProbeRcs :
       /\ Poll(config, fault, rc)
       /\ UNCHANGED <<pcieVars, conVars>>
  \/ /\ UpperRef
     /\ UNCHANGED <<pcieVars, conVars>>
  \/ /\ UpperDeref
     /\ UNCHANGED <<pcieVars, conVars>>
  \/ \E b \in BOOLEAN :
       /\ SetDropMode(b)
       /\ UNCHANGED <<pcieVars, conVars>>
  \/ /\ FifoRead(BootChunk, 0)
     /\ UNCHANGED <<pcieVars, conVars>>
  \/ /\ FifoWrite(BootChunk, 0)
     /\ UNCHANGED <<pcieVars, conVars>>
  \/ /\ ReadCompletes(Settled)
     /\ UNCHANGED <<pcieVars, conVars>>
  \/ /\ WriteCompletes(Settled)
     /\ UNCHANGED <<pcieVars, conVars>>

LifeInit == PcieInit /\ hostLE /\ UsbInit

\* Arrival, probe and departure of devices with every descriptor layout
ProbeInit == PcieInit /\ hostLE /\ UsbInit

ProbeNext ==
  \/ /\ HotplugArrived
     /\ UNCHANGED <<pcieVars, conVars>>
  \/ /\ HotplugLeft
     /\ UNCHANGED <<pcieVars, conVars>>
  \/ \E config \in ProbeConfigs, fault \in ProbeFaults, rc \in ProbeRcs :
       /\ Poll(config, fault, rc)
       /\ UNCHANGED <<pcieVars, conVars>>
  \/ /\ UpperRef
     /\ UNCHANGED <<pcieVars, conVars>>
  \/ /\ UpperDeref
     /\ UNCHANGED <<pcieVars, conVars>>

SpecUsbProbe == ProbeInit /\ [][ProbeNext]_vars

\* The main loop calls rshim_usb_poll again and again: a poll that has a
\* probe to run is not put off for ever
PollProbes ==
  /\ \E config \in ProbeConfigs, fault \in ProbeFaults, rc \in ProbeRcs :
       Poll(config, fault, rc)
  /\ UNCHANGED <<pcieVars, conVars>>

SpecUsbProbeFair == SpecUsbProbe /\ WF_vars(PollProbes)

SpecUsbLife ==
  LifeInit /\ [][LifeNext]_vars

----------------------------------------------------------------------------
(* Properties of the PCIe register path (checked under SpecPcie) *)

\* C1 (as claimed): in every gateway access, a lock acquire that succeeded
\* is followed by exactly one lock release before the access returns, also
\* when a capability access in between fails.
C1_LockBracket == gwLast.rel = gwLast.acq

BootHi(c) == [k |-> "gww", a |-> RshAddr(c.chan, RSH_BOOT_FIFO_DATA),
              v |-> Upper32(be64toh(c.orig)), ok |-> TRUE]
BootLo(c) == [k |-> "gww", a |-> RshAddr(c.chan, RSH_BOOT_FIFO_DATA),
              v |-> Lower32(be64toh(c.orig)), ok |-> TRUE]

BootWriteDone == call.phase = "done" /\ call.op = "write" /\ call.boot

ReadBack == /\ call.phase = "done" /\ call.op = "read" /\ call.rc = 0
            /\ Key(call.chan, call.reg) \in DOMAIN lastWrite

\* C10: a register read that follows a successful write of V to the same
\* (non boot FIFO) address returns V.
C10_RoundTrip == ReadBack => call.result = lastWrite[Key(call.chan, call.reg)]

C10_Witness == ReadBack /\ call.result \in Values /\ hostLE

----------------------------------------------------------------------------
(* Properties of the USB FIFO engine (checked under SpecUsbStream) *)

Handled == ev.op \in {"read_cb", "write_cb"} /\ ~ev.ub
FlagOf(op) == IF op = "read_cb" THEN "READING" ELSE "WRITING"

\* C3 (as claimed): a completion with a transient status and zero length
\* that finds the direction's retry counter at its ceiling of 5 emits
\* exactly one FIFO error notification and does not resubmit.
C3_CeilingSurfacesError ==
  (Handled /\ ev.status \in Transient /\ ev.len = 0
     /\ ev.retries = READ_RETRIES)
  => /\ Len(ev.notes) = 1
     /\ ev.notes[1].e = "FIFO_ERR"
     /\ ~ev.resub

\* C4: after a fresh submission the completion handler resubmits at most 5
\* times; the retry counter of each direction is 0 after every fresh
\* submission and stays within 0..5.
C4_BoundedRetry ==
  /\ hist.rdResub <= READ_RETRIES
  /\ hist.wrResub <= WRITE_RETRIES
  /\ dev.read_or_intr_retries \in 0..READ_RETRIES
  /\ dev.write_retries \in 0..WRITE_RETRIES
  /\ (ev.op = "fifo_read" /\ ev.sub) => dev.read_or_intr_retries = 0
  /\ (ev.op = "fifo_write" /\ ev.sub) => dev.write_retries = 0
  /\ (Handled /\ ev.resub) => ev.status \in Transient /\ ev.len = 0

C4_Witness ==
  /\ ev.op = "read_cb" /\ ~ev.ub /\ ev.status \in Transient /\ ev.len = 0
  /\ ev.retries = READ_RETRIES /\ ~ev.resub
  /\ hist.rdResub = READ_RETRIES

OutstandingOf(cb) ==
  {id \in UrbIds : /\ Outstanding(lib.urbs[id])
                   /\ lib.urbs[id].cb = cb
                   /\ lib.urbs[id].gen = dev.gen}

C6_SilentAbsorb ==
  (Handled /\ ev.status \in {LIBUSB_TRANSFER_NO_DEVICE,
                             LIBUSB_TRANSFER_CANCELLED})
  => /\ FlagOf(ev.op) \notin dev.spin_flags
     /\ ev.notes = <<>>
     /\ ~ev.resub
     /\ Bookkeeping(dev) = ev.pre

C6_Witness ==
  /\ ev.op = "read_cb" /\ ~ev.ub /\ ev.busy
  /\ ev.status = LIBUSB_TRANSFER_CANCELLED
  /\ dev.read_buf_bytes # 0

\* C7 (as claimed): once the device has been detached with a bulk read
\* outstanding and that read has completed as device-removed, no FIFO error
\* has been notified and the two transfer objects, the interrupt buffer, the
\* handle and the probe's reference have all been released.
C7_DetachReleasesAll ==
  (hist.det = "bulk" /\ hist.detDone)
  => /\ ~hist.detErr
     /\ lib.urbs[hist.detRead].st = "none"
     /\ lib.urbs[hist.detWrite].st = "none"
     /\ ~dev.intr_buf.alloc
     /\ lib.handles[hist.detHandle] = "closed"
     /\ dev.ref = hist.upper

----------------------------------------------------------------------------
(* Properties of USB register access (checked under SpecUsbCtrl) *)

\* C8 (as claimed): a control transfer that moved a byte count other than 8
\* makes the register access return -ENXIO (short) or -EINVAL (long), and
\* that code is none of the codes libusb fails a control transfer with.
C8_MalformedDistinct ==
  (ev.op \in {"read_rshim", "write_rshim"} /\ ev.sub
     /\ ev.libRc >= 0 /\ ev.libRc # CtrlSize)
  => /\ ev.rc = IF ev.libRc > CtrlSize THEN -EINVAL ELSE -ENXIO
     /\ ev.rc \notin LibusbErrors

----------------------------------------------------------------------------
(* Register access without a register bus (checked under SpecRegBus) *)

\* A register operation of the PCIe backend starts
PcieEnters == call.phase = "idle" /\ call'.phase # "idle"

\* A register operation of the USB backend ran
UsbRegOp == ev'.op \in {"read_rshim", "write_rshim"}

\* C11: a register read or write on a backend whose has_rshim flag is clear
\* returns -ENODEV and touches no hardware: on PCIe no capability register
\* access is made (the call is over at once, the gateway registers, the
\* widget and the access log are as before) and write_count is unchanged; on
\* USB no control transfer is made and neither the device structure nor the
\* library state changes.
C11_NoDeviceNoAccess ==
  [][ /\ (PcieEnters /\ ~has_rshim) =>
           /\ call'.phase = "done" /\ call'.rc = -ENODEV
           /\ log' = <<>>
           /\ UNCHANGED <<write_count, cr, widget, gwLast>>
      /\ (UsbRegOp /\ ~dev.has_rshim) =>
           /\ ev'.rc = -ENODEV /\ ~ev'.sub
           /\ UNCHANGED <<dev, lib>> ]_vars

C11_Witness ==
  /\ ~has_rshim /\ call.phase = "done" /\ call.op = "write"
  /\ call.rc = -ENODEV /\ write_count = 7
  /\ ~dev.has_rshim /\ ev.op = "read_rshim" /\ ev.rc = -ENODEV /\ ~ev.sub

----------------------------------------------------------------------------
(* Guards of the stream entry points (checked under SpecUsbGuard) *)

StreamOps == {"fifo_read", "fifo_write", "boot_write"}

\* the operation handed a transfer to libusb, or died doing so
TouchedEndpoint(e) == e.sub \/ e.ub

\* C12: TMFIFO read, TMFIFO write and boot write test has_rshim, has_tm and
\* drop_mode before touching an endpoint: with a flag missing or in drop mode
\* no transfer is submitted, and in drop mode a write returns success.
C12_SubmissionGuards ==
  [][ ev'.op \in StreamOps =>
        /\ (~dev.has_rshim \/ ~dev.has_tm \/ dev.drop_mode) =>
             ~TouchedEndpoint(ev')
        /\ (dev.has_rshim /\ dev.has_tm /\ dev.drop_mode
            /\ ev'.op # "fifo_read") => ev'.rc = 0 ]_vars

\* What the code does guard: the two TMFIFO routines
C12_FifoGuards ==
  [][ ev'.op \in {"fifo_read", "fifo_write"} =>
        /\ (~dev.has_rshim \/ ~dev.has_tm \/ dev.drop_mode) =>
             (~TouchedEndpoint(ev') /\ UNCHANGED <<dev, lib>>)
        /\ (dev.has_rshim /\ dev.has_tm /\ dev.drop_mode
            /\ ev'.op = "fifo_write") => ev'.rc = 0 ]_vars

\* A boot write in drop mode that reached the boot endpoint
C12_BootInDropMode ==
  /\ ev.op = "boot_write" /\ ev.sub /\ dev.drop_mode
  /\ dev.has_rshim /\ dev.has_tm

----------------------------------------------------------------------------
(* Probe outcomes (checked under SpecUsbProbe) *)

HasAttach(notes) == \E i \in 1..Len(notes) : notes[i].e = "ATTACH"

\* rshim_usb_poll probes the plugged device, which no backend is bound to
\* yet, and the device reports one of the descriptors in configs
ProbesDevice(configs, faults) ==
  /\ lib.plugged # 0
  /\ ~rshim_find_by_dev(dev, lib.plugged)
  /\ \E config \in configs, fault \in faults, rc \in ProbeRcs :
       Poll(config, fault, rc)

\* C13: the probe of a device whose subclass-0 interface has a single
\* endpoint that is not bulk or is inbound fails: it registers nothing, it
\* notifies no attach, and afterwards no registered backend is bound to the
\* device.
C13_BadRshimEndpointFails ==
  [][ ProbesDevice(BadRshimConfigs, ProbeFaults) =>
        /\ ~HasAttach(ev'.notes)
        /\ dev'.registered => dev.registered
        /\ ~rshim_find_by_dev(dev', lib.plugged) ]_vars

\* What the code does: when the bad subclass-0 interface is listed first and
\* no backend of that name is alive, the probe fails as C13 says
C13_BadFirstOnFreshName ==
  [][ (ProbesDevice({<<InboundRshimIface, TmIface>>,
                     <<IntRshimIface, TmIface>>}, ProbeFaults)
       /\ ~rshim_find_by_name(dev)) =>
        /\ ~HasAttach(ev'.notes)
        /\ ~dev'.registered
        /\ ~rshim_find_by_dev(dev', lib.plugged) ]_vars

\* The bad subclass-0 interface comes after the tmfifo interface: the probe
\* never looks at it and attaches a backend without a register bus
C13_AttachedAnyway ==
  /\ ev.op = "probe" /\ HasAttach(ev.notes)
  /\ dev.registered /\ dev.has_tm /\ ~dev.has_rshim
  /\ dev.bd_dev = lib.plugged /\ hist.upper = 0

\* C15: a device whose name rshim_allow_device rejects is not opened and
\* none of its interfaces is claimed (no handle appears), no backend is
\* created, referenced or registered for it (the backend is as before), no
\* transfer is allocated, nothing is notified, and the probe returns
\* -EACCES.
C15_DeniedUntouched ==
  [][ ProbesDevice(ProbeConfigs, {"deny"}) =>
        /\ ev'.rc = -EACCES /\ ev'.notes = <<>>
        /\ dev' = dev
        /\ lib'.handles = lib.handles /\ lib'.nhandle = lib.nhandle
        /\ lib'.urbs = lib.urbs ]_vars

C15_Witness ==
  /\ ev.op = "probe" /\ ev.rc = -EACCES
  /\ lib.plugged # 0 /\ ~lib.need_probe
  /\ lib.nhandle = 0 /\ ~dev.alive

Handles == 1..MaxArrivals

\* the handle is the one a live backend holds in dev->handle
HeldByBackend(h) == dev.alive /\ dev.handle = h

\* C17: every handle libusb_open returned to a probe is closed exactly once:
\* no handle is closed twice, and a handle is open only while a live backend
\* holds it, so none stays open after a failed probe or a teardown.
C17_HandleClosedOnce ==
  \A h \in Handles :
    /\ lib.closes[h] <= 1
    /\ lib.handles[h] = "open" => HeldByBackend(h)

\* What the code does keep: no handle is closed twice, and a closed handle
\* is not the one a backend holds
C17_NeverClosedTwice ==
  \A h \in Handles :
    /\ lib.closes[h] <= 1
    /\ lib.handles[h] = "closed" => ~HeldByBackend(h)

\* calloc of the rshim_usb_t failed after libusb_open and the claim of the
\* interfaces: the probe is over, no backend exists, the handle is open
C17_LeakedHandle ==
  /\ ev.op = "probe" /\ ~dev.alive
  /\ \E h \in Handles : lib.handles[h] = "open" /\ lib.closes[h] = 0

\* the calls whose failure makes rshim_usb_probe_one give up
FailFaults == {"ports", "deny", "config", "open", "claim", "calloc", "urb",
               "register", "notify"}

UrbIdsInUse(l) == {u \in DOMAIN l.urbs : l.urbs[u].st # "none"}
OpenHandles(l) == {h \in Handles : l.handles[h] = "open"}

\* C19: a probe that fails releases what it acquired: no handle it opened
\* stays open, no transfer object it allocated stays allocated, no new
\* backend stays behind, and a backend that was there before keeps its
\* reference count, its registration, its flags and its binding.
C19_FailedProbeReleases ==
  [][ ProbesDevice(ProbeConfigs, FailFaults) =>
        /\ OpenHandles(lib') \subseteq OpenHandles(lib)
        /\ UrbIdsInUse(lib') \subseteq UrbIdsInUse(lib)
        /\ dev'.alive = dev.alive
        /\ dev'.alive =>
             /\ dev'.ref = dev.ref /\ dev'.registered = dev.registered
             /\ dev'.has_rshim = dev.has_rshim /\ dev'.has_tm = dev.has_tm
             /\ dev'.bd_dev = dev.bd_dev /\ dev'.handle = dev.handle ]_vars

\* What a failed probe of a device with no backend of that name does
\* release, when the failing call is not the calloc of the backend
C19_FreshProbeReleases ==
  [][ (ProbesDevice(ProbeConfigs, FailFaults \ {"calloc"})
       /\ ~rshim_find_by_name(dev)) =>
        /\ OpenHandles(lib') = OpenHandles(lib)
        /\ UrbIdsInUse(lib') = UrbIdsInUse(lib)
        /\ ~dev'.alive ]_vars

\* A probe failed on a backend that an upper layer had kept: the backend is
\* now bound to the device and holds a handle that is open
C19_StaleBinding ==
  /\ ev.op = "probe" /\ ~HasAttach(ev.notes)
  /\ dev.alive /\ dev.registered /\ ~dev.has_rshim
  /\ dev.bd_dev = lib.plugged /\ lib.plugged # 0
  /\ dev.handle # 0 /\ dev.read_or_intr_urb = 0

----------------------------------------------------------------------------
(* Deferred probe (checked under SpecUsbProbeFair) *)

\* the hotplug callback ran for an arrival
Arrives == lib'.arrivals = lib.arrivals + 1

\* rshim_usb_poll ran rshim_usb_probe
Probes == ev'.op = "probe"

\* C14: the hotplug callback probes nothing on an arrival, it only sets
\* rshim_usb_need_probe (no backend, handle or transfer is touched and
\* nothing is notified); the probe runs in rshim_usb_poll, which leaves the
\* flag clear; and while the process lives an arrival is always followed by
\* a probe.
C14_DeferredProbe ==
  /\ [][ /\ Arrives =>
             /\ lib'.need_probe /\ ev'.op = "arrived" /\ ev'.notes = <<>>
             /\ dev' = dev
             /\ lib'.handles = lib.handles /\ lib'.urbs = lib.urbs
         /\ Probes => (lib.need_probe /\ ~lib'.need_probe) ]_vars
  /\ (lib.need_probe ~> ((ev.op = "probe" /\ ~lib.need_probe) \/ lib.crashed))

C14_Witness ==
  /\ ev.op = "probe" /\ ~lib.need_probe /\ lib.arrivals = MaxArrivals
  /\ lib.plugged = MaxArrivals /\ rshim_find_by_dev(dev, lib.plugged)

----------------------------------------------------------------------------
(* Concurrent gateway accesses (checked under SpecPcieLock) *)

\* C16: with two callers in gateway accesses on one PCI device, at most one
\* of them is between a trio_cr_gw_lock_acquire that succeeded and its
\* release.
C16_LockExclusion ==
  \A t, u \in GwThreads : (InGateway(t) /\ InGateway(u)) => t = u

\* Both callers are in their transaction, on a device that does not take
\* the lock on a read
C16_BothInside ==
  /\ InGateway(1) /\ InGateway(2) /\ ~gw.lockOnRead

\* The same on a device that takes the lock on the read that finds it free:
\* the second caller read back a word the first had stored in the hidden
\* data register
C16_BothInsideLockOnRead ==
  /\ InGateway(1) /\ InGateway(2) /\ gw.lockOnRead

----------------------------------------------------------------------------
(* Notifications and the locks around them (checked under SpecUsbNotify) *)

InNotify(t) == nt.inNotify[t] # NoNote

\* C18 (as claimed): no two rshim_notify calls for the same backend are in
\* progress at the same time.
C18_NeverConcurrent ==
  \A t, u \in NtThreads :
    (InNotify(t) /\ InNotify(u) /\ nt.inNotify[t].bd = nt.inNotify[u].bd)
      => t = u

\* C18 (amended): a FIFO notification of the USB backend is delivered with
\* its ringlock held, an attach or detach notification of the USB backend
\* with rshim_lock held, the attach notification of the PCIe backend with
\* its mutex held; so no two FIFO notifications and no two attach / detach
\* notifications of a backend are in progress at the same time.
C18_SerializedPerKind ==
  /\ \A t \in NtThreads :
       LET n == nt.inNotify[t]
       IN /\ (n.bd = "usb" /\ n.e \in FifoEvents)
               => nt.held["usb.ringlock"] = t
          /\ (n.bd = "usb" /\ n.e \in {"ATTACH", "DETACH"})
               => nt.held["rshim_lock"] = t
          /\ (n.bd = "pcie" /\ n.e = "ATTACH")
               => nt.held["pcie.mutex"] = t
  /\ \A t, u \in NtThreads :
       (InNotify(t) /\ InNotify(u) /\ t # u
          /\ nt.inNotify[t].bd = nt.inNotify[u].bd)
         => (nt.inNotify[t].e \in FifoEvents)
              # (nt.inNotify[u].e \in FifoEvents)

\* The attach notification of a probe and a FIFO notification of a late
\* completion are in progress together, under different locks
C18_Witness ==
  /\ nt.inNotify["main"] = [bd |-> "usb", e |-> "ATTACH"]
  /\ nt.inNotify["caller"].bd = "usb"
  /\ nt.inNotify["caller"].e \in FifoEvents
  /\ nt.held["usb.ringlock"] = "caller"
  /\ nt.held["rshim_lock"] = "main"

----------------------------------------------------------------------------
(* The write counter (checked under SpecPcie) *)

\* C20: dev->write_count is between 0 and 7 in every state; a register read
\* sets it to 0; a register write that finds it at 7 sets it to 0 (by the
\* drain read) before counting itself, and any other write adds one.
C20_WriteCount ==
  /\ [](write_count \in 0..7)
  /\ [][ (PcieEnters /\ has_rshim) =>
           /\ call'.op = "read" => write_count' = 0
           /\ (call'.op = "write" /\ write_count = 7) =>
                (write_count' = 0 /\ call'.phase = "drain")
           /\ (call'.op = "write" /\ write_count < 7) =>
                write_count' = write_count + 1 ]_vars
  /\ [][ (call.phase = "drain" /\ call'.phase # "drain") =>
           write_count' = 1 ]_vars

\* the eighth write in a row has run its drain and counted itself
C20_Witness ==
  /\ call.op = "write" /\ call.phase = "done" /\ call.rc = 0
  /\ call.entryCount = 7 /\ write_count = 1

(***************************************************************************)
(* The order of a detach (checked under SpecUsbStream)                     *)
(***************************************************************************)
\* the position of the first call named s in the handler's steps, 0 if none
StepAt(steps, s) ==
  IF \E i \in 1..Len(steps) : steps[i] = s
  THEN CHOOSE i \in 1..Len(steps) :
         steps[i] = s /\ \A j \in 1..(i - 1) : steps[j] # s
  ELSE 0

Detached == ev.op = "disconnect" /\ StepAt(ev.steps, "DETACH") # 0

\* C21: a detach cancels the read and the write transfer first, then
\* delivers the DETACH notification, and releases the reference last.
C21_DetachOrder ==
  Detached =>
    /\ StepAt(ev.steps, "cancel_read") < StepAt(ev.steps, "DETACH")
    /\ StepAt(ev.steps, "cancel_write") < StepAt(ev.steps, "DETACH")
    /\ StepAt(ev.steps, "DETACH") < StepAt(ev.steps, "deref")
    /\ StepAt(ev.steps, "deref") = Len(ev.steps)

\* What the handler does do: DETACH, the two cancellations, the close of
\* the handle, the release of the reference, in this order.
C21_NotifyFirst ==
  Detached =>
    ev.steps \in {<<"DETACH", "cancel_read", "cancel_write", "close", "deref">>,
                  <<"DETACH", "cancel_read", "cancel_write", "deref">>}

\* a detach that found both transfers in flight
C21_DetachedInFlight ==
  /\ Detached
  /\ hist.det \in {"intr", "bulk"}
  /\ lib.urbs[hist.detRead].st = "cancelling"
  /\ lib.urbs[hist.detWrite].st = "cancelling"

(***************************************************************************)
(* Registration on a probe (checked under SpecUsbProbe)                    *)
(***************************************************************************)
\* C22: the probe calls rshim_register only for a backend that is not
\* registered yet; the re-binding of a registered backend does not call it.
C22_RegisterOnlyOnce ==
  ev.op = "probe" => StepAt(ev.steps, "register_again") = 0

\* What holds: a probe calls rshim_register at most once, after it took its
\* reference, and notifies ATTACH only after a registration that succeeded.
C22_RegisterBeforeAttach ==
  ev.op = "probe" =>
    /\ Cardinality({i \in 1..Len(ev.steps) :
                      ev.steps[i] \in {"register", "register_again"}}) <= 1
    /\ StepAt(ev.steps, "ATTACH") # 0 =>
         ev.steps[StepAt(ev.steps, "ATTACH") - 1]
           \in {"register", "register_again"}

\* the probe of a new device re-bound a backend that an upper layer kept,
\* registered it a second time and attached it
C22_RegisteredAgain ==
  /\ ev.op = "probe" /\ ev.rc = 0
  /\ StepAt(ev.steps, "register_again") # 0
  /\ HasAttach(ev.notes)
  /\ dev.registered /\ dev.bd_dev = lib.plugged

(***************************************************************************)
(* Completion of a read or an interrupt transfer (under SpecUsbStream)     *)
(***************************************************************************)
ReadCompleted ==
  Handled /\ ev.op = "read_cb" /\ ev.status = LIBUSB_TRANSFER_COMPLETED

\* C23: a completed bulk read sets the interrupt scratch count to 0, the
\* buffered byte count to the transfer's actual length and the consumption
\* offset to 0; a completed interrupt transfer leaves the three as the
\* transfer left them; both clear READING, emit exactly one FIFO_INPUT
\* notification and do not resubmit.
C23_ReadCompletion ==
  ReadCompleted =>
    /\ ~ev.intr => /\ dev.intr_buf.val = 0
                   /\ dev.read_buf_bytes = ev.len
                   /\ dev.read_buf_next = 0
    /\ ev.intr => Bookkeeping(dev) = ev.pre
    /\ "READING" \notin dev.spin_flags
    /\ ev.notes = <<[e |-> "FIFO_INPUT", code |-> 0]>>
    /\ ~ev.resub

\* a bulk read completed with data while the scratch count was not 0
C23_Witness ==
  /\ ReadCompleted /\ ~ev.intr /\ ev.busy
  /\ ev.len # 0 /\ ev.pre[1].val # 0
  /\ dev.intr_buf.val = 0 /\ dev.read_buf_bytes = ev.len

\* an interrupt transfer completed and reported bytes available
C23_InterruptCompleted ==
  /\ ReadCompleted /\ ev.intr /\ ev.busy
  /\ dev.intr_buf.val # 0 /\ dev.read_buf_bytes = 0

(***************************************************************************)
(* The kind of transfer a stream read submits (under SpecUsbStream)        *)
(***************************************************************************)
\* rshim_usb_fifo_read got past its guards and filled a transfer
ReadSubmits == ev'.op = "fifo_read" /\ ev'.sub

WidgetWriteDone ==
  call.phase = "done" /\ call.op = "write" /\ ~call.boot /\ call.rc = 0

\* the gateway accesses of the write proper, after those of a forced drain
Accesses(l) ==
  [i \in 1..Len(l) |-> [k |-> l[i].k, a |-> l[i].a, v |-> l[i].v]]

WidgetLog == Accesses(SubSeq(log, call.drainLen + 1, Len(log)))

\* C25: an 8-byte widget write performs a PENDING wait, the size+control
\* write, the target address write, the write-trigger write, a PENDING
\* wait, the write of the upper 32 bits, a PENDING wait and the write of
\* the lower 32 bits, in this order.
C25_WidgetWriteOrder ==
  WidgetWriteDone =>
    WidgetLog = Accesses(<<
                   Pend,
                   GwW(Chan1(RSH_BYTE_ACC_CTL), RSH_BYTE_ACC_SIZE),
                   GwW(Chan1(RSH_BYTE_ACC_ADDR), call.addr),
                   GwW(Chan1(RSH_BYTE_ACC_CTL), RSH_BYTE_ACC_SIZE),
                   Pend,
                   GwW(Chan1(RSH_BYTE_ACC_WDAT), Upper32(call.value)),
                   Pend,
                   GwW(Chan1(RSH_BYTE_ACC_WDAT), Lower32(call.value)) >>)

\* What the write does: the same accesses without the PENDING wait between
\* the second control write and the write of the upper 32 bits.
C25_NoWaitBeforeUpper ==
  WidgetWriteDone =>
    WidgetLog = Accesses(<<
                   Pend,
                   GwW(Chan1(RSH_BYTE_ACC_CTL), RSH_BYTE_ACC_SIZE),
                   GwW(Chan1(RSH_BYTE_ACC_ADDR), call.addr),
                   GwW(Chan1(RSH_BYTE_ACC_CTL), RSH_BYTE_ACC_SIZE),
                   GwW(Chan1(RSH_BYTE_ACC_WDAT), Upper32(call.value)),
                   Pend,
                   GwW(Chan1(RSH_BYTE_ACC_WDAT), Lower32(call.value)) >>)

\* a widget write of a value with two different halves returned success
C25_WidgetWritten ==
  /\ WidgetWriteDone
  /\ Upper32(call.value) # Lower32(call.value)
  /\ Len(WidgetLog) = 7

(***************************************************************************)
(* Failing capability accesses (checked under SpecPcie)                    *)
(***************************************************************************)
PcieDone == call.phase = "done" /\ call.op \in {"read", "write"}

\* the gateway accesses of the operation that failed
FailedAt == {i \in 1..Len(log) : ~log[i].ok}

\* C26: when a capability access fails during a register operation, the
\* forced drain of a write included, the operation issues no further
\* access and returns the error.
C26_ErrorPropagates ==
  PcieDone =>
    /\ FailedAt \subseteq {Len(log)}
    /\ FailedAt # {} <=> call.rc # 0
    /\ call.rc \in {0, PciFail}

\* What holds: the drain stops at its first failing access and the write
\* proper stops at its first failing access and returns that error; an
\* operation that returns an error has issued nothing after the failure.
C26_EachSequenceStops ==
  PcieDone =>
    /\ FailedAt \subseteq {call.drainLen, Len(log)}
    /\ Len(log) \in FailedAt <=> call.rc # 0
    /\ call.rc \in {0, PciFail}
    /\ call.op = "read" => call.drainLen = 0

\* a write whose forced drain failed went on and returned success
C26_DrainErrorDropped ==
  /\ PcieDone /\ call.op = "write" /\ call.rc = 0
  /\ call.drainLen > 0 /\ ~log[call.drainLen].ok
  /\ Len(log) > call.drainLen

(***************************************************************************)
(* The order of the interfaces (checked under SpecUsbProbe)                *)
(***************************************************************************)
\* the probe returned 0 after it registered the backend and notified ATTACH
ProbeAttached == ev'.op = "probe" /\ ev'.rc = 0 /\ HasAttach(ev'.notes)

\* the capabilities and endpoint addresses of RshimIface and TmIface
BothInterfaces(d) ==
  /\ d.has_rshim /\ d.has_tm
  /\ d.boot_fifo_ep = 1
  /\ d.tm_fifo_int_ep = 130 /\ d.tm_fifo_in_ep = 129 /\ d.tm_fifo_out_ep = 2

\* C27: the successful probe of a device with a valid register-bus
\* interface and a valid stream interface sets has_rshim and has_tm and
\* records the four endpoint addresses, in whichever order the two
\* interfaces are listed.
C27_AnyOrder ==
  [][ (ProbesDevice({<<RshimIface, TmIface>>, <<TmIface, RshimIface>>},
                    ProbeFaults)
       /\ ProbeAttached) => BothInterfaces(dev') ]_vars

\* What holds: with the register-bus interface listed first the probe
\* records both interfaces; with the stream interface listed first it
\* records the three stream endpoints and has_tm, and the register-bus
\* interface is not looked at.
C27_RshimFirst ==
  [][ ProbeAttached =>
        /\ ProbesDevice({<<RshimIface, TmIface>>}, ProbeFaults)
              => BothInterfaces(dev')
        /\ ProbesDevice({<<TmIface, RshimIface>>}, ProbeFaults)
              => /\ dev'.has_tm /\ ~dev'.has_rshim
                 /\ dev'.boot_fifo_ep = dev.boot_fifo_ep
                 /\ dev'.tm_fifo_int_ep = 130 /\ dev'.tm_fifo_in_ep = 129
                 /\ dev'.tm_fifo_out_ep = 2 ]_vars

(***************************************************************************)
(* A partial transfer with a transient status (under SpecUsbStream)        *)
(***************************************************************************)
PartialTransient == Handled /\ ev.status \in Transient /\ ev.len # 0

\* C28: a completion with timeout, stall or overflow status and a nonzero
\* actual length is not retried and surfaces exactly one FIFO error
\* notification carrying the negated status.
C28_PartialSurfacesError ==
  PartialTransient =>
    /\ ~ev.resub
    /\ ev.notes = <<[e |-> "FIFO_ERR", code |-> NegCode(ev.status)]>>

\* What the handlers do: no retry, the busy flag cleared, the retry counter
\* and the read bookkeeping untouched, and no notification at all.
C28_PartialSilent ==
  PartialTransient =>
    /\ ~ev.resub
    /\ ev.notes = <<>>
    /\ FlagOf(ev.op) \notin dev.spin_flags
    /\ Bookkeeping(dev) = ev.pre
    /\ ev.op = "read_cb" => dev.read_or_intr_retries = ev.retries
    /\ ev.op = "write_cb" => dev.write_retries = ev.retries

\* a read timed out after it had moved bytes, below the retry ceiling
C28_PartialRead ==
  /\ PartialTransient /\ ev.op = "read_cb" /\ ev.busy
  /\ ev.status = LIBUSB_TRANSFER_TIMED_OUT
  /\ ev.retries < READ_RETRIES /\ ev.notes = <<>>

(***************************************************************************)
(* The condition of the PENDING wait (checked under SpecPcie)              *)
(***************************************************************************)
\* read_value & RSH_BYTE_ACC_PENDING
PendingBit(v) == And32(v, RSH_BYTE_ACC_PENDING) # Zero32

\* the wait read the control register without a failure and polls again
PollsAgain == call'.phase = call.phase /\ call'.idx = call.idx
              /\ call'.polls = call.polls + 1

\* C29: rshim_byte_acc_pending_wait polls again exactly when the control
\* register it read has the PENDING bit set, whatever its other bits are.
C29_PendingBitOnly ==
  [][ \A ctl \in CtlReadbacks :
        PendWaitStep(0, ctl) => (PollsAgain <=> PendingBit(ctl)) ]_vars

\* What holds: the wait polls again exactly when the value has a bit of
\* RSH_CHANNEL1_BASE + RSH_BYTE_ACC_PENDING set, so it never returns while
\* PENDING is set, and a value with none of the three bits ends it.
C29_MaskedBits ==
  [][ \A ctl \in CtlReadbacks :
        PendWaitStep(0, ctl) =>
          /\ PollsAgain <=> And32(ctl, PendingMask) # Zero32
          /\ PendingBit(ctl) => PollsAgain
          /\ ctl \in {Zero32, RSH_BYTE_ACC_SIZE} => ~PollsAgain ]_vars

(***************************************************************************)
(* The balance of references (checked under SpecUsbProbe)                  *)
(***************************************************************************)
\* References of the backend that this code holds: the count without the
\* references taken by upper layers
OwnRefs == dev.ref - hist.upper

\* how often step s occurs in the steps of a call
Times(steps, s) == Cardinality({i \in 1..Len(steps) : steps[i] = s})

\* the last call was a probe of a known backend that failed after it had
\* taken its reference
FailedReprobe ==
  /\ ev.op = "probe" /\ ~ev.ub
  /\ Times(ev.steps, "ref") = 1 /\ Times(ev.steps, "deref") = 1
  /\ dev.alive /\ hist.upper > 0

C30_DisconnectAfterFailedProbe ==
  /\ ev.op = "disconnect" /\ ev.ub
  /\ dev.alive /\ dev.ref = hist.upper /\ hist.upper > 0
  /\ dev.read_or_intr_urb = 0 /\ dev.write_urb = 0

(***************************************************************************)
(* Completions after the teardown (checked under SpecUsbStream)            *)
(***************************************************************************)
\* the last call was a completion callback
CallbackRan == ev.op \in {"read_cb", "write_cb"}

\* C31: whenever a read or write completion callback runs, the completion
\* of a transfer cancelled by the disconnect included, the backend it
\* refers to has not been destroyed and the interrupt buffer it
\* dereferences is still allocated: no callback touches freed or NULL
\* memory.
C31_CallbackSeesLiveBackend == CallbackRan => ~ev.ub

\* Before any disconnect the callbacks find their backend and its buffer.
C31_LiveBeforeDetach == (CallbackRan /\ hist.det = "no") => ~ev.ub

\* the callback of a transfer cancelled by the disconnect ran after
\* rshim_deref had destroyed the backend
C31_CallbackOnFreedBackend ==
  /\ CallbackRan /\ ev.ub
  /\ ev.status = LIBUSB_TRANSFER_CANCELLED
  /\ ~dev.alive

\* the callback ran on a backend kept by an upper layer, after the disconnect
\* had freed the interrupt buffer
C31_CallbackOnFreedBuffer ==
  /\ CallbackRan /\ ev.ub
  /\ dev.alive /\ ~dev.intr_buf.alloc
  /\ hist.det # "no"

(***************************************************************************)
(* The locks on the paths of the probes and of the disconnect              *)
(***************************************************************************)
ENOMEM == 12

\* Outcomes of the calls rshim_pcie_probe makes: at most one of them fails
PcieProbeFaults == {"none", "calloc", "fifo", "buf", "register", "notify"}

\* rshim_pcie_probe; known: rshim_find_by_name found the backend, which is
\* registered then; rc is the code of a failing rshim_register or
\* rshim_notify
rshim_pcie_probe(known, fault, rc) ==
  LET p0 == Did([steps |-> <<>>, rc |-> 0, registered |-> known],
                "rshim_lock")
      fail == [p0 EXCEPT !.rc = -ENOMEM]
      p1 == Did(Did(p0, "rshim_unlock"), "rshim_lock")
      p2 == IF ~p1.registered
            THEN LET q == Did(p1, "register")
                 IN IF fault = "register" THEN [q EXCEPT !.rc = rc]
                    ELSE [q EXCEPT !.registered = TRUE]
            ELSE p1
      p3 == Did(Did(Did(Did(p2, "rshim_unlock"), "mutex_lock"), "ATTACH"),
                "mutex_unlock")
  IN IF ~known /\ fault = "calloc" THEN Did(fail, "rshim_unlock")
     ELSE IF fault \in {"fifo", "buf"} THEN Did(fail, "rshim_unlock")
     ELSE IF p2.rc # 0 THEN Did(p2, "rshim_unlock")
     ELSE IF fault = "notify" THEN [p3 EXCEPT !.rc = rc]
     ELSE p3

\* rshim_pcie_probe on a device found by the scan of the bus
PcieProbe(known, fault, rc) ==
  /\ Running
  /\ LET p == rshim_pcie_probe(known, fault, rc)
     IN ev' = [EvNone EXCEPT !.op = "pcie_probe", !.steps = p.steps,
                             !.rc = p.rc]
  /\ UNCHANGED <<dev, lib, hist>>

LockPathsNext ==
  \/ /\ HotplugArrived
     /\ UNCHANGED <<pcieVars, conVars>>
  \/ /\ HotplugLeft
     /\ UNCHANGED <<pcieVars, conVars>>
  \/ \E config \in ProbeConfigs, fault \in ProbeFaults, rc \in ProbeRcs :
       /\ Poll(config, fault, rc)
       /\ UNCHANGED <<pcieVars, conVars>>
  \/ /\ UpperRef
     /\ UNCHANGED <<pcieVars, conVars>>
  \/ /\ UpperDeref
     /\ UNCHANGED <<pcieVars, conVars>>
  \/ \E known \in BOOLEAN, fault \in PcieProbeFaults, rc \in ProbeRcs :
       /\ PcieProbe(known, fault, rc)
       /\ UNCHANGED <<pcieVars, conVars>>

SpecLockPaths == ProbeInit /\ [][LockPathsNext]_vars

\* how many more times lock than unlock occurs in the first i steps
Depth(steps, i, lock, unlock) ==
  Cardinality({j \in 1..i : steps[j] = lock})
    - Cardinality({j \in 1..i : steps[j] = unlock})

\* the lock is never released while free nor taken while held, and it is
\* free at the return
Bracketed(steps, lock, unlock) ==
  /\ \A i \in 0..Len(steps) : Depth(steps, i, lock, unlock) \in {0, 1}
  /\ Depth(steps, Len(steps), lock, unlock) = 0

\* bd->mutex is taken and released inside rshim_lock
MutexInsideRegistry(steps) ==
  \A i \in 1..Len(steps) :
    /\ steps[i] = "mutex_lock" =>
         Depth(steps, i, "rshim_lock", "rshim_unlock") = 1
    /\ steps[i] = "rshim_unlock" =>
         Depth(steps, i, "mutex_lock", "mutex_unlock") = 0

\* the last call was a probe or a disconnect that returned
Returned ==
  ev.op \in {"probe", "disconnect", "pcie_probe"} /\ ~ev.ub

\* C32: every return path of rshim_pcie_probe, rshim_usb_probe_one and
\* rshim_usb_disconnect, successful or failing, leaves the registry lock and
\* the backend's mutex released, each unlocked as many times as it was
\* locked, and the USB paths take the backend's mutex only while they hold
\* the registry lock and release it before the registry lock.
C32_LocksReleased ==
  Returned =>
    /\ Bracketed(ev.steps, "rshim_lock", "rshim_unlock")
    /\ Bracketed(ev.steps, "mutex_lock", "mutex_unlock")
    /\ ev.op \in {"probe", "disconnect"} => MutexInsideRegistry(ev.steps)

\* a USB probe failed after it had taken bd->mutex and went through the
\* error path
C32_Witness ==
  /\ ev.op = "probe" /\ ~ev.ub
  /\ Times(ev.steps, "mutex_lock") = 1
  /\ Times(ev.steps, "deref") = 1

\* a disconnect found its backend and returned
C32_DisconnectReturned ==
  /\ ev.op = "disconnect" /\ ~ev.ub
  /\ Times(ev.steps, "mutex_lock") = 1
  /\ Times(ev.steps, "rshim_unlock") = 1

\* a PCIe probe failed in rshim_register
C32_PcieRegisterFailed ==
  /\ ev.op = "pcie_probe" /\ ev.rc # 0
  /\ Times(ev.steps, "register") = 1
  /\ Times(ev.steps, "rshim_lock") = 2

(***************************************************************************)
(* The return code of the USB probe (checked under SpecUsbProbe)           *)
(***************************************************************************)
\* the last call was rshim_usb_probe_one on a device
ProbeOneRan == ev.op = "probe" /\ Len(ev.steps) > 0

\* the probe returned after the lookup by device, before the second
\* rshim_lock
ReturnedEarly == Times(ev.steps, "rshim_lock") = 1

\* the probe went through the label error
TookErrorPath ==
  /\ ProbeOneRan /\ ~ReturnedEarly
  /\ StepAt(ev.steps, "ATTACH") = 0 \/ StepAt(ev.steps, "deref") # 0

\* C33: every rshim_usb_probe_one that takes the error path (allocation
\* failure, bad endpoints, unknown interface subclass, failed registration
\* or attach notification) returns a nonzero code; it returns 0 only when
\* the device was already known or was registered and notified as attached.
C33_FailureReported == TookErrorPath => ev.rc # 0

\* A failing rshim_register or attach notification is reported with its code.
C33_LateFailureReported ==
  (TookErrorPath /\ (StepAt(ev.steps, "register") # 0
                      \/ StepAt(ev.steps, "register_again") # 0))
    => ev.rc # 0

\* the probe released the backend on its error path and returned 0
C33_SilentFailure ==
  /\ TookErrorPath /\ ev.rc = 0
  /\ StepAt(ev.steps, "deref") # 0

\* calloc of the device failed and the probe returned 0
C33_SilentCallocFailure ==
  /\ TookErrorPath /\ ev.rc = 0
  /\ StepAt(ev.steps, "ref") = 0

====
